---- MODULE Spec2Model ----
(***************************************************************************)
(* A model of gidopen.py, the "click a path to open it" plugin.            *)
(*                                                                         *)
(* Text is a sequence of one-character strings; offsets are 0-based as in  *)
(* the host editor, so the character at offset p is buffer[p + 1].  The    *)
(* platform is POSIX (the else branch of gidopen.py lines 54-71).          *)
(***************************************************************************)
EXTENDS Integers, Sequences, FiniteSets, TLC

\* Python's None where a string is expected, and where text (a sequence) is.
None == "None"
NoneText == <<"None">>

\* What the host returns for view.substr(point) outside the buffer: '\x00'.
NUL == "NUL"

\* A control character that is no whitespace, such as '\x1b'.
ESC == "ESC"

\* The grave accent, which the lexer does not take inside a string literal.
GRAVE == "grave"

SETTING_PWD == "current_working_directory"

CONTEXT_ACTION_ERROR == "Error"
CONTEXT_ACTION_FOLDER_ADD == "Add Folder"
CONTEXT_ACTION_FOLDER_REVEAL == "Reveal"
CONTEXT_ACTION_FILE_OPEN == "Open"
CONTEXT_ACTION_FILE_GOTO == "Goto"
CONTEXT_ACTION_FILE_NEW == "New File"
CONTEXT_ACTION_FOLDER_NEW == "Create Folder"

-----------------------------------------------------------------------------
(* Strings *)

Min(a, b) == IF a < b THEN a ELSE b
Max(a, b) == IF a < b THEN b ELSE a

\* s[b:e] of Python for 0 <= b, clamped to the string.
Slice(s, b, e) == SubSeq(s, Max(b, 0) + 1, Min(e, Len(s)))

\* s[b:]
From(s, b) == SubSeq(s, Max(b, 0) + 1, Len(s))

startswith(s, p) == Len(p) <= Len(s) /\ SubSeq(s, 1, Len(p)) = p

\* str.rstrip(chars)
RECURSIVE rstrip(_, _)
rstrip(s, chars) ==
    IF Len(s) > 0 /\ s[Len(s)] \in chars
    THEN rstrip(SubSeq(s, 1, Len(s) - 1), chars)
    ELSE s

\* str.rfind(c) + 1 for a single character c: the offset just past the last c.
RECURSIVE rfind1(_, _)
rfind1(s, c) ==
    IF Len(s) = 0 THEN 0
    ELSE IF s[Len(s)] = c THEN Len(s)
    ELSE rfind1(SubSeq(s, 1, Len(s) - 1), c)

\* str.find(c, start) for a single character c; -1 when absent.
RECURSIVE find1(_, _, _)
find1(s, c, start) ==
    IF start >= Len(s) THEN -1
    ELSE IF s[start + 1] = c THEN start
    ELSE find1(s, c, start + 1)

\* str.split('/'): the string cut at its first '/' at offset i, if any.
RECURSIVE splitsep(_)
splitsep_at(s, i) ==
    IF i = -1 THEN <<s>>
    ELSE <<SubSeq(s, 1, i)>> \o splitsep(SubSeq(s, i + 2, Len(s)))

splitsep(s) == splitsep_at(s, find1(s, "/", 0))

\* '/'.join(comps)
RECURSIVE joinsep(_)
joinsep(comps) ==
    IF Len(comps) = 0 THEN <<>>
    ELSE IF Len(comps) = 1 THEN comps[1]
    ELSE comps[1] \o <<"/">> \o joinsep(Tail(comps))

\* find_all(pat, s): every offset at which pat occurs in s, left to right,
\* overlapping occurrences included.
RECURSIVE find_all_from(_, _, _)
find_all_from(pat, s, i) ==
    IF i + Len(pat) > Len(s) THEN <<>>
    ELSE (IF SubSeq(s, i + 1, i + Len(pat)) = pat THEN <<i>> ELSE <<>>)
         \o find_all_from(pat, s, i + 1)

find_all(pat, s) == find_all_from(pat, s, 0)

\* The concatenation of the sequences F gives for the elements of s.
RECURSIVE FlatMapFrom(_, _, _)
FlatMapFrom(F(_), s, i) ==
    IF i > Len(s) THEN <<>> ELSE F(s[i]) \o FlatMapFrom(F, s, i + 1)

FlatMap(F(_), s) == FlatMapFrom(F, s, 1)

-----------------------------------------------------------------------------
(* Character classes *)

DigitChars == {"0", "1", "2", "3", "4", "5", "6", "7", "8", "9"}

\* ord(c) <= 32 for the characters the model's texts use.
IsControlOrSpace(c) == c \in {NUL, ESC, " ", "\n", "\t"}

\* The characters of the literal at gidopen.py line 147.
NotPathChars ==
    {"<", ">", "&", "|", "'", "\"", ",", ";", ":", "[", "]", "(", ")",
     "*", "?", GRAVE, "=", "#", "!"}

\* is_likely_path_char that leaves the braces out of paths as well.
is_likely_path_char_braces(c) ==
    IF IsControlOrSpace(c) THEN FALSE
    ELSE IF c \in NotPathChars \cup {"{", "}"} THEN FALSE
    ELSE TRUE

is_likely_path_char(c) ==
    IF IsControlOrSpace(c) THEN FALSE
    ELSE IF c \in NotPathChars THEN FALSE
    ELSE TRUE

is_path_sep(c) == c = "/"

is_path_root(s) == s = <<"/">>

-----------------------------------------------------------------------------
(* os.path on POSIX *)

isabs(s) == Len(s) > 0 /\ s[1] = "/"

normcase(s) == s

\* The head os.path.split returns: its slashes stripped unless it is all
\* slashes.
split_head(head, stripped) == IF stripped # <<>> THEN stripped ELSE head

dirname_at(p, i) == split_head(SubSeq(p, 1, i), rstrip(SubSeq(p, 1, i), {"/"}))

dirname(p) == dirname_at(p, rfind1(p, "/"))
basename(p) == SubSeq(p, rfind1(p, "/") + 1, Len(p))

\* os.path.split
split(p) == <<dirname(p), basename(p)>>

\* os.path.join(a, b)
join(a, b) ==
    IF isabs(b) THEN b
    ELSE IF Len(a) = 0 \/ a[Len(a)] = "/" THEN a \o b
    ELSE a \o <<"/">> \o b

\* The component loop of posixpath.normpath.
RECURSIVE normcomps(_, _, _)
normcomps(comps, new_comps, initial_slashes) ==
    IF Len(comps) = 0 THEN new_comps
    ELSE IF Head(comps) = <<>> \/ Head(comps) = <<".">>
    THEN normcomps(Tail(comps), new_comps, initial_slashes)
    ELSE IF Head(comps) # <<".", ".">>
            \/ (initial_slashes = 0 /\ Len(new_comps) = 0)
            \/ (Len(new_comps) > 0 /\ new_comps[Len(new_comps)] = <<".", ".">>)
    THEN normcomps(Tail(comps), Append(new_comps, Head(comps)), initial_slashes)
    ELSE IF Len(new_comps) > 0
    THEN normcomps(Tail(comps), SubSeq(new_comps, 1, Len(new_comps) - 1),
                   initial_slashes)
    ELSE normcomps(Tail(comps), new_comps, initial_slashes)

\* POSIX keeps two leading slashes, and makes one of three or more.
initial_slashes_of(path) ==
    IF ~isabs(path) THEN 0
    ELSE IF startswith(path, <<"/", "/">>) /\ ~startswith(path, <<"/", "/", "/">>)
    THEN 2
    ELSE 1

normpath_out(out) == IF out = <<>> THEN <<".">> ELSE out

normpath_with(path, initial_slashes) ==
    normpath_out(SubSeq(<<"/", "/">>, 1, initial_slashes)
                 \o joinsep(normcomps(splitsep(path), <<>>, initial_slashes)))

\* os.path.normpath
normpath(path) ==
    IF path = <<>> THEN <<".">> ELSE normpath_with(path, initial_slashes_of(path))

-----------------------------------------------------------------------------
(* The filesystem and the process environment *)

VARIABLES
    fs,              \* the directory tree: entries in directory order
    window_folders,  \* window.folders(): the project's folders
    project_keys,    \* the keys of window.project_data(): none when it is None or {}
    pwd_setting,     \* view.settings()['current_working_directory'] or NoneText
    winvar_file,     \* window.extract_variables().get('file') or NoneText
    buffer,          \* the text of the view
    sel,             \* the view's selection: one region <<a, b>>, empty when a = b
    clipboard,       \* the system clipboard
    context,         \* view.settings()['gidopen_in_view']: None or <<action, path>>
    message,         \* what the last description call returned: <<action, label>>
    yielded,         \* the candidates the last description call consumed, in order
    v_pwd,           \* gidopen_in_view._pwd, _folders, _labels
    v_folders,
    v_labels,
    w_action,        \* gidopen_in_window.action and .path
    w_path,
    w_pwd,           \* gidopen_in_window._pwd, _folders, _labels
    w_folders,
    w_labels,
    dispatched,      \* what the last run did: <<verb, path>>
    last             \* the last call: its name and what it was given

vars == <<fs, window_folders, project_keys, pwd_setting, winvar_file, buffer, sel, clipboard,
          context, message, yielded, v_pwd, v_folders, v_labels,
          w_action, w_path, w_pwd, w_folders, w_labels, dispatched, last>>

Root == <<"/">>

\* os.environ['HOME'], and the one account of the password database.
EnvHome == <<"/", "h", "o", "m", "e", "/", "u">>
UserName == <<"u">>

\* The working directory of the editor's process, against which the kernel
\* resolves a relative path.
getcwd == Root

\* \w of the regular expression in posixpath.expandvars.
WordChars ==
    {"a", "b", "c", "d", "e", "f", "g", "h", "i", "j", "k", "l", "m", "n",
     "o", "p", "q", "r", "s", "t", "u", "v", "w", "x", "y", "z", "A", "B",
     "C", "D", "E", "F", "G", "H", "I", "J", "K", "L", "M", "N", "O", "P",
     "Q", "R", "S", "T", "U", "V", "W", "X", "Y", "Z", "0", "1", "2", "3",
     "4", "5", "6", "7", "8", "9", "_"}

\* The entry of the tree at a normalized absolute path; the root is always
\* there, and NoEntry is what a path that names nothing gets.
RootEntry == [path |-> Root, kind |-> "dir", readable |-> TRUE]
NoEntry == [path |-> <<>>, kind |-> "none", readable |-> FALSE]

Lookup(p) ==
    IF p = Root THEN RootEntry
    ELSE IF \E i \in 1..Len(fs.entries) : fs.entries[i].path = p
    THEN fs.entries[CHOOSE i \in 1..Len(fs.entries) : fs.entries[i].path = p]
    ELSE NoEntry

\* One step of the kernel's walk along the components of a path.
walkstep(cur, c) ==
    IF c = <<>> \/ c = <<".">> THEN cur
    ELSE IF c = <<".", ".">> THEN dirname(cur)
    ELSE join(cur, c)

\* The walk: every component but the last must be a directory.  The result
\* is where the walk ends, or NoneText.
RECURSIVE walkcomps(_, _)
walkcomps(cur, comps) ==
    IF Len(comps) = 0 THEN cur
    ELSE IF Lookup(cur).kind # "dir" THEN NoneText
    ELSE walkcomps(walkstep(cur, Head(comps)), Tail(comps))

Resolve(path) ==
    IF path = <<>> THEN NoneText
    ELSE walkcomps(IF isabs(path) THEN Root ELSE getcwd, splitsep(path))

\* os.stat(path), as far as the plugin looks at it.
stat(path) == Lookup(Resolve(path))

exists(path) == stat(path).kind # "none"
isdir(path) == stat(path).kind = "dir"
is_file(path) == stat(path).kind = "file"

\* os.access(path, os.R_OK)
is_readable(path) == stat(path).readable

\* The names in the directory whose real path is r, in the order the
\* directory gives them.
names_in(r) ==
    SelectSeq(fs.entries, LAMBDA e : e.path # Root /\ dirname(e.path) = r)

in_order(inorder) ==
    [i \in 1..Len(inorder) |->
        basename(inorder[IF fs.reversed THEN Len(inorder) + 1 - i ELSE i].path)]

scandir(d) == in_order(names_in(Resolve(d)))

\* os.listdir raises for a path that is no directory and for a directory
\* the process may not read.
cannot_list(st) == st.kind # "dir" \/ ~st.readable
listdir_raises(d) == cannot_list(stat(d))

error_of(st) ==
    IF st.kind = "none" THEN "FileNotFoundError"
    ELSE IF st.kind # "dir" THEN "NotADirectoryError"
    ELSE "PermissionError"
listdir_error(d) == error_of(stat(d))

listdir(d) == IF listdir_raises(d) THEN <<>> ELSE scandir(d)

\* os.walk lists a directory the same way and ignores the error.
walk_dirnames(d) == SelectSeq(listdir(d), LAMBDA n : isdir(join(d, n)))
walk_filenames(d) == SelectSeq(listdir(d), LAMBDA n : ~isdir(join(d, n)))

\* os.mkdir(path): the tree afterwards.  It raises when the parent is not a
\* directory or the path exists.
mkdir_raises(path) == ~isdir(dirname(path)) \/ exists(path) \/ basename(path) = <<>>
mkdir(path) ==
    [fs EXCEPT !.entries =
        Append(@, [path |-> join(Resolve(dirname(path)), basename(path)),
                   kind |-> "dir", readable |-> TRUE])]

\* os.path.expanduser: `i` is the offset of the first '/', or the length.
expanduser_out(out) == IF out = <<>> THEN Root ELSE out

expanduser_at(path, i) ==
    IF i # 1 /\ SubSeq(path, 2, i) # UserName THEN path
    ELSE expanduser_out(rstrip(EnvHome, {"/"}) \o SubSeq(path, i + 1, Len(path)))

first_sep(path, f) == IF f < 0 THEN Len(path) ELSE f

expanduser(path) ==
    IF ~startswith(path, <<"~">>) THEN path
    ELSE expanduser_at(path, first_sep(path, find1(path, "/", 1)))

\* The first offset at or after i whose character is not a word character.
RECURSIVE wordend(_, _)
wordend(s, i) ==
    IF i < Len(s) /\ s[i + 1] \in WordChars THEN wordend(s, i + 1) ELSE i

\* os.path.expandvars with os.environ = {'HOME': EnvHome}: the loop over
\* the matches of \$(\w+|\{[^}]*\}) from offset i on.  `d` is the offset of
\* the next '$'; a match runs from d to j and names `name`.
RECURSIVE expandvars_from(_, _)
expandvars_match(path, d, j, name) ==
    IF j = -1 THEN expandvars_from(path, d + 1)
    ELSE IF name # <<"H", "O", "M", "E">> THEN expandvars_from(path, j)
    ELSE expandvars_from(SubSeq(path, 1, d) \o EnvHome \o SubSeq(path, j + 1, Len(path)),
                         d + Len(EnvHome))

expandvars_braced(path, d, close) ==
    expandvars_match(path, d, IF close = -1 THEN -1 ELSE close + 1,
                     SubSeq(path, d + 3, close))

expandvars_word(path, d, wend) ==
    expandvars_match(path, d, IF wend > d + 1 THEN wend ELSE -1,
                     SubSeq(path, d + 2, wend))

expandvars_at(path, d) ==
    IF d = -1 THEN path
    ELSE IF d + 1 < Len(path) /\ path[d + 2] = "{"
    THEN expandvars_braced(path, d, find1(path, "}", d + 2))
    ELSE expandvars_word(path, d, wordend(path, d + 1))

expandvars_from(path, i) == expandvars_at(path, find1(path, "$", i))

expandvars(path) == expandvars_from(path, 0)

-----------------------------------------------------------------------------
(* PartialPath and AbsolutePath.  A path object is modelled by its raw      *)
(* string; the canonical form is computed from it as __init__ does.         *)

PartialPath_norm(path) == IF path # <<>> THEN normpath(path) ELSE path

PartialPath_canonical(path) == normcase(PartialPath_norm(path))

PartialPath_eq(a, b) == PartialPath_canonical(a) = PartialPath_canonical(b)

canonical_len(path) == Len(PartialPath_canonical(path))

AbsolutePath_norm(path) == expanduser(PartialPath_norm(path))

AbsolutePath_canonical(path) == normcase(AbsolutePath_norm(path))

AbsolutePath_eq(a, b) == AbsolutePath_canonical(a) = AbsolutePath_canonical(b)

\* `a < b`: a is an ancestor of b.
AbsolutePath_lt(a, b) ==
    startswith(AbsolutePath_canonical(b), AbsolutePath_canonical(a) \o <<"/">>)

\* `a <= b`, from the canonical forms of both.
canonical_le(ca, cb) == ca = cb \/ startswith(cb, ca \o <<"/">>)

AbsolutePath_le(a, b) ==
    canonical_le(AbsolutePath_canonical(a), AbsolutePath_canonical(b))

is_root(a) == is_path_root(AbsolutePath_canonical(a))
basepath(a) == basename(AbsolutePath_norm(a))
canonical_base(a) == basename(AbsolutePath_canonical(a))

get_home == EnvHome

-----------------------------------------------------------------------------
(* The view *)

size == Len(buffer)

\* view.substr(point)
substr(pos) == IF pos >= 0 /\ pos < Len(buffer) THEN buffer[pos + 1] ELSE NUL

\* view.substr(sublime.Region(a, b)): the text of the region, clamped to the
\* buffer.
substr_region(a, b) == SubSeq(buffer, Max(Min(a, b), 0) + 1, Min(Max(a, b), Len(buffer)))

Region(a, b) == <<a, b>>
NoRegion == <<>>
region_begin(r) == Min(r[1], r[2])
region_end(r) == Max(r[1], r[2])
region_size(r) == Max(r[1], r[2]) - Min(r[1], r[2])
region_empty(r) == r[1] = r[2]
\* `if region:` is false of None and, Region.__len__ being the size, of an
\* empty region.
region_false(r) == r = NoRegion \/ r[1] = r[2]
region_contains(r, point) == Min(r[1], r[2]) <= point /\ point <= Max(r[1], r[2])

\* expand_begin that tests the character at `begin`, not the one before it.
RECURSIVE expand_begin_late(_)
expand_begin_late(begin) ==
    IF begin > 0 /\ is_likely_path_char(substr(begin))
    THEN expand_begin_late(begin - 1) ELSE begin

RECURSIVE expand_begin(_)
expand_begin(begin) ==
    IF begin > 0 /\ is_likely_path_char(substr(begin - 1))
    THEN expand_begin(begin - 1) ELSE begin

RECURSIVE expand_end(_)
expand_end(end) ==
    IF end < Len(buffer) /\ is_likely_path_char(substr(end))
    THEN expand_end(end + 1) ELSE end

expand_path(begin, end) == <<expand_begin(begin), expand_end(end)>>

-----------------------------------------------------------------------------
(* get_line_col *)

\* The `while ch in '0123456789'` loops: the offset of the first character at
\* or after pos that is not a digit.
RECURSIVE digits_end(_)
digits_end(pos) ==
    IF substr(pos) \in DigitChars THEN digits_end(pos + 1) ELSE pos

\* The column `0` that get_line_col returns as an integer, not as text.
IntZero == <<"int", "0">>
NoLineCol == <<>>

\* line_and_col that keeps the column whatever follows it.
line_and_col_always(line, b, e) == <<line, substr_region(b, e)>>

\* Lines 392-405: the column's digits run from b to e.
line_and_col(line, b, e) ==
    IF IsControlOrSpace(substr(e)) \/ substr(e) = ":"
    THEN <<line, substr_region(b, e)>>
    ELSE <<line, IntZero>>

\* Lines 382-405: the line's digits run from b to e.
line_then_col(b, e) ==
    IF substr(e) # ":" THEN <<substr_region(b, e), IntZero>>
    ELSE IF substr(e + 1) \notin DigitChars THEN <<substr_region(b, e), IntZero>>
    ELSE line_and_col(substr_region(b, e), e + 1, digits_end(e + 2))

\* Lines 371-379: the line's digits run from b to e.
line_then_colon(b, e) ==
    IF substr(e) = ":" THEN <<substr_region(b, e), IntZero>> ELSE NoLineCol

\* Lines 359-368 and 411-420: the line's digits start at b.
line_only(b) ==
    IF substr(b) \notin DigitChars THEN NoLineCol
    ELSE <<substr_region(b, digits_end(b + 1)), IntZero>>

get_line_col(pos) ==
    IF substr(pos) = ":" THEN
        IF substr(pos + 1) = " " THEN
            IF substr(pos + 2) = "l" THEN
                IF substr_region(pos + 3, pos + 7) = <<"i", "n", "e", " ">>
                THEN line_only(pos + 7)
                ELSE NoLineCol
            ELSE IF substr(pos + 2) \in DigitChars
            THEN line_then_colon(pos + 2, digits_end(pos + 3))
            ELSE NoLineCol
        ELSE IF substr(pos + 1) \in DigitChars
        THEN line_then_col(pos + 1, digits_end(pos + 2))
        ELSE NoLineCol
    ELSE IF substr(pos) = "\"" THEN
        IF substr_region(pos + 1, pos + 8) = <<",", " ", "l", "i", "n", "e", " ">>
        THEN line_only(pos + 8)
        ELSE NoLineCol
    ELSE NoLineCol

\* '{}'.format(col)
format_col(col) == IF col = IntZero THEN <<"0">> ELSE col

-----------------------------------------------------------------------------
(* Candidates *)

Candidate(kind, region, path) == [kind |-> kind, region |-> region, path |-> path]
FileFound(region, path) == Candidate("FileFound", region, path)
FolderFound(region, path) == Candidate("FolderFound", region, path)
FileNotFound(region, path) == Candidate("FileNotFound", region, path)
FolderNotFound(region, path) == Candidate("FolderNotFound", region, path)
TextFound(region, path) == Candidate("TextFound", region, path)

\* An exception raised inside a generator: it ends the stream at this place.
\* The path field holds the name of the exception's class.
Raised(exc) == Candidate("Exception", NoRegion, <<exc>>)

\* A call of _setup_folders made inside a generator (by _folder_iterate, or
\* by the _shorten_name of a "skip" message): it fills the memo.
SetupCalled == Candidate("Setup", NoRegion, <<>>)

IsMark(c) == c.kind \in {"Setup", "Exception"}

\* The candidates of a stream, the marks left out.
Yields(stream) == SelectSeq(stream, LAMBDA c : c.kind # "Setup")

\* The `found` a generator returns: it has yielded (or raised).
Found(stream) == \E i \in 1..Len(stream) : stream[i].kind # "Setup"

\* view.settings()['folder_exclude_patterns']
folder_excludes == {<<".", "g", "i", "t">>}

-----------------------------------------------------------------------------
(* Base directories.  `su` is what _setup_folders returns:                  *)
(* [pwd, folders, labels], labels[i] being the label of folders[i].         *)

\* The loop at lines 456-465: the folders kept out of window_folders[i..].
RECURSIVE keep_folders(_, _, _)
keep_folders(wf, i, folders) ==
    IF i > Len(wf) THEN folders
    ELSE IF \E k \in 1..Len(folders) : AbsolutePath_le(folders[k], wf[i])
    THEN keep_folders(wf, i + 1, folders)
    ELSE IF \E k \in (i + 1)..Len(wf) : AbsolutePath_lt(wf[k], wf[i])
    THEN keep_folders(wf, i + 1, folders)
    ELSE keep_folders(wf, i + 1, Append(folders, wf[i]))

\* count[base] after the loop.
base_count(wf, base) ==
    Cardinality({k \in 1..Len(wf) : canonical_base(wf[k]) = base})

\* Lines 466-468.
folder_labels(wf, folders) ==
    [i \in 1..Len(folders) |->
        IF base_count(wf, canonical_base(folders[i])) = 1
        THEN basepath(folders[i]) ELSE NoneText]

\* default_pwd that tries the first folder before the current file.
default_pwd_folder_first(folders) ==
    IF Len(folders) > 0 THEN folders[1]
    ELSE IF winvar_file # NoneText THEN dirname(winvar_file)
    ELSE get_home

\* Lines 476-483: the working directory when the setting gives none.
default_pwd(folders) ==
    IF winvar_file # NoneText THEN dirname(winvar_file)
    ELSE IF Len(folders) > 0 THEN folders[1]
    ELSE get_home

\* Lines 469-475: the setting, tilde-expanded, if it names a directory.
pwd_of_setting(setting, folders) ==
    IF setting # NoneText /\ isabs(setting) /\ isdir(setting)
    THEN setting
    ELSE default_pwd(folders)

setup_with(folders, setting) ==
    [pwd |-> pwd_of_setting(setting, folders),
     folders |-> folders,
     labels |-> folder_labels(window_folders, folders)]

\* gidopen_in_view._setup_folders, computed from the window as it is now.
view_setup_folders ==
    setup_with(keep_folders(window_folders, 1, <<>>),
               IF pwd_setting # NoneText THEN expanduser(pwd_setting) ELSE NoneText)


\* What _folder_iterate yields after the folders.
pwd_last(pwd, pwd_is_folder, pwd_in_folder, yield_pwd_in_folder) ==
    IF pwd_in_folder
    THEN (IF yield_pwd_in_folder THEN <<pwd>> ELSE <<>>)
    ELSE (IF ~pwd_is_folder THEN <<pwd>> ELSE <<>>)

_folder_iterate(su, yield_pwd_in_folder) ==
    su.folders \o
    pwd_last(su.pwd,
             \E k \in 1..Len(su.folders) : AbsolutePath_eq(su.folders[k], su.pwd),
             \E k \in 1..Len(su.folders) :
                /\ ~AbsolutePath_eq(su.folders[k], su.pwd)
                /\ AbsolutePath_lt(su.folders[k], su.pwd),
             yield_pwd_in_folder)

\* _folder_in_project that takes the working directory for a folder of the
\* project.
_folder_in_project_or_pwd(su, name) ==
    \/ \E k \in 1..Len(su.folders) : AbsolutePath_le(su.folders[k], name)
    \/ AbsolutePath_le(su.pwd, name)

_folder_in_project(su, name) ==
    \E k \in 1..Len(su.folders) : AbsolutePath_le(su.folders[k], name)

\* The folders of su that give `name` a label, by their offsets.
label_hits(su, name) ==
    {k \in 1..Len(su.folders) :
        su.labels[k] # NoneText /\ AbsolutePath_le(su.folders[k], name)}

shorten_with(su, name, hits) ==
    IF hits # {}
    THEN su.labels[CHOOSE h \in hits : \A g \in hits : h <= g]
         \o SubSeq(name, Len(su.folders[CHOOSE h \in hits : \A g \in hits : h <= g]) + 1,
                   Len(name))
    ELSE IF ~is_root(get_home) /\ AbsolutePath_lt(get_home, name)
    THEN <<"~">> \o SubSeq(name, Len(get_home) + 1, Len(name))
    ELSE name

_shorten_name(su, name) == shorten_with(su, name, label_hits(su, name))

-----------------------------------------------------------------------------
(* Matching the buffer against the tree *)

\* The `while` of _expand_right: the end offset it stops at.
RECURSIVE expand_right_end(_, _, _)
expand_right_end(begin, end, clen) ==
    IF end < Len(buffer) /\ canonical_len(substr_region(begin, end)) < clen
    THEN expand_right_end(begin, end + 1, clen)
    ELSE end

expand_right_at(prefix_region, end, canonical) ==
    IF PartialPath_canonical(substr_region(region_end(prefix_region), end)) = canonical
    THEN Region(region_begin(prefix_region), end)
    ELSE NoRegion

expand_right_with(prefix_region, canonical) ==
    expand_right_at(prefix_region,
                    expand_right_end(region_end(prefix_region),
                                     region_end(prefix_region) + Len(canonical),
                                     Len(canonical)),
                    canonical)

\* The region from the prefix's begin to the end of `suffix` in the buffer,
\* or NoRegion when the buffer does not go on with `suffix`.
_expand_right(prefix_region, suffix) ==
    expand_right_with(prefix_region, PartialPath_canonical(suffix))

\* all_matching_descendants: one directory of the os.walk at a time.  First
\* its directories (lines 536-550), then its files (552-559), then the walk
\* goes on below the directories the first loop has kept.
RECURSIVE descend(_, _, _)
dir_found(path, name, region) ==
    IF name \in folder_excludes THEN <<SetupCalled>>
    ELSE IF region_false(region) THEN <<>>
    ELSE <<FolderFound(region, path)>>

file_found(path, region) ==
    IF region_false(region) THEN <<>>
    ELSE IF is_readable(path) THEN <<FileFound(region, path)>>
    ELSE <<SetupCalled>>

dir_below(path, name, region, dlen, folder_region) ==
    IF name \in folder_excludes \/ region_false(region) THEN <<>>
    ELSE descend(path, dlen, folder_region)

descend_names(dirpath, dlen, folder_region, dirnames, filenames) ==
    FlatMap(LAMBDA name :
                dir_found(join(dirpath, name), name,
                          _expand_right(folder_region,
                                        From(join(dirpath, name), dlen))),
            dirnames)
    \o FlatMap(LAMBDA name :
                file_found(join(dirpath, name),
                           _expand_right(folder_region,
                                         From(join(dirpath, name), dlen))),
               filenames)
    \o FlatMap(LAMBDA name :
                dir_below(join(dirpath, name), name,
                          _expand_right(folder_region,
                                        From(join(dirpath, name), dlen)),
                          dlen, folder_region),
               dirnames)

descend(dirpath, dlen, folder_region) ==
    descend_names(dirpath, dlen, folder_region,
                  walk_dirnames(dirpath), walk_filenames(dirpath))

\* Line 532 asserts that folder_path is a directory.
all_matching_descendants(folder_path, folder_region) ==
    IF ~isdir(folder_path) THEN <<Raised("AssertionError")>>
    ELSE descend(folder_path, Len(folder_path), folder_region)

\* prefixed_match without the check that a file can be read.
prefixed_match_unchecked(path, name, region) ==
    IF region_false(region) THEN <<>>
    ELSE IF isdir(path) THEN
        IF name \in folder_excludes THEN <<SetupCalled>>
        ELSE <<FolderFound(region, path)>>
             \o (IF is_path_sep(substr(region_end(region)))
                 THEN all_matching_descendants(path, region)
                 ELSE <<>>)
    ELSE <<FileFound(region, path)>>

\* Lines 576-592: the name starts with the prefix and the buffer goes on as
\* the name does, up to the end of `region`.
prefixed_match(path, name, region) ==
    IF region_false(region) THEN <<>>
    ELSE IF isdir(path) THEN
        IF name \in folder_excludes THEN <<SetupCalled>>
        ELSE <<FolderFound(region, path)>>
             \o (IF is_path_sep(substr(region_end(region)))
                 THEN all_matching_descendants(path, region)
                 ELSE <<>>)
    ELSE IF is_readable(path) THEN <<FileFound(region, path)>>
    ELSE <<SetupCalled>>

\* Lines 572-575.
prefixed_name(path, name, name_prefix, plen, prefix_region) ==
    IF ~startswith(normcase(name), name_prefix) THEN <<>>
    ELSE prefixed_match(path, name, _expand_right(prefix_region, From(path, plen)))

\* Lines 569-571: d is the directory of the prefix and st its status.
prefixed_in(d, st, name_prefix, plen, prefix_region) ==
    IF st.kind # "dir" THEN <<>>
    ELSE IF cannot_list(st) THEN <<Raised(error_of(st))>>
    ELSE FlatMap(LAMBDA name :
                    prefixed_name(join(d, name), name, name_prefix, plen,
                                  prefix_region),
                 scandir(d))

\* all_files_prefixed_by: what it yields.  It returns found = TRUE exactly
\* when it has yielded a candidate.  Line 566 asserts that the prefix is
\* absolute.
all_files_prefixed_by(prefix, prefix_region) ==
    IF ~isabs(prefix) THEN <<Raised("AssertionError")>>
    ELSE prefixed_in(dirname(prefix), stat(dirname(prefix)),
                     normcase(basename(prefix)), Len(prefix), prefix_region)

\* The absolute path check_absolute_path searches for, or NoneText.
absolute_of(path, expanded) ==
    IF isabs(path) THEN normpath(path)
    ELSE IF path[1] = "~" /\ expanded # path THEN normpath(expanded)
    ELSE NoneText

check_prefix(region, prefix) ==
    IF prefix = NoneText THEN <<>> ELSE all_files_prefixed_by(prefix, region)

check_absolute_path(region, path) ==
    check_prefix(region, absolute_of(path, expanduser(path)))

\* The loop of _expand_left: the offset at which the match starts.  `dir`
\* is the directory still to be matched, `pos` the offset of the separator
\* before the match.
RECURSIVE expand_left_from(_, _, _)
expand_left_split(parent, base, pos, match_start) ==
    IF pos < Len(base) THEN match_start
    ELSE IF ~PartialPath_eq(substr_region(pos - Len(base), pos), base)
    THEN match_start
    ELSE expand_left_from(parent, pos - Len(base) - 1, pos - Len(base))

expand_left_from(dir, pos, match_start) ==
    IF is_path_root(dir) \/ pos < 0 \/ ~is_path_sep(substr(pos)) THEN match_start
    ELSE IF pos >= 1 /\ is_path_sep(substr(pos - 1))
    THEN expand_left_from(dir, pos - 1, match_start)
    ELSE IF /\ pos >= 2
            /\ substr_region(pos - 2, pos - 1) = <<"/">>
            /\ substr(pos - 1) = "."
    THEN expand_left_from(dir, pos - 2, match_start)
    ELSE expand_left_split(dirname(dir), basename(dir), pos, match_start)

_expand_left(region, dir) ==
    Region(expand_left_from(dir, region_begin(region) - 1, region_begin(region)),
           region_end(region))

\* Lines 755-770: `name` holds the basename at offset idx, and text_region is
\* where the whole name would be in the buffer.
contains_match(fullpath, name, text_region) ==
    IF ~PartialPath_eq(substr_region(text_region[1], text_region[2]), name) THEN <<>>
    ELSE IF isdir(fullpath) THEN
        <<FolderFound(text_region, fullpath)>>
        \o (IF is_path_sep(substr(text_region[2]))
            THEN all_matching_descendants(fullpath, text_region)
            ELSE <<>>)
    ELSE IF is_file(fullpath) /\ is_readable(fullpath)
    THEN <<FileFound(text_region, fullpath)>>
    ELSE <<>>

\* Lines 752-753.
contains_name(fullpath, name, basename_normcase, begin) ==
    FlatMap(LAMBDA idx :
                contains_match(fullpath, name,
                               Region(begin - idx, begin - idx + Len(name))),
            find_all(basename_normcase, normcase(name)))

\* Line 751: os.listdir raises for what is no directory.
contains_in(folder, st, basename_normcase, begin) ==
    IF cannot_list(st) THEN <<Raised(error_of(st))>>
    ELSE FlatMap(LAMBDA name :
                    contains_name(join(folder, name), name, basename_normcase, begin),
                 scandir(folder))

_search_contains(su, region, base) ==
    <<SetupCalled>>
    \o FlatMap(LAMBDA folder :
                contains_in(folder, stat(folder), normcase(base), region_begin(region)),
               _folder_iterate(su, TRUE))

\* Lines 786-796.
prefix_match(path, name, cregion) ==
    IF region_false(cregion) THEN <<>>
    ELSE IF isdir(path) THEN
        IF name \in folder_excludes THEN <<>> ELSE <<FolderFound(cregion, path)>>
    ELSE IF is_readable(path) THEN <<FileFound(cregion, path)>>
    ELSE <<>>

\* Lines 782-785.
prefix_name(path, name, basename_normcase, plen, region) ==
    IF ~startswith(normcase(name), basename_normcase) THEN <<>>
    ELSE prefix_match(path, name, _expand_right(region, From(path, plen)))

\* Lines 779-781: the first loop of _search_prefix in one folder.
prefix_in(folder, st, base, region) ==
    IF st.kind # "dir" THEN <<>>
    ELSE IF cannot_list(st) THEN <<Raised(error_of(st))>>
    ELSE FlatMap(LAMBDA name :
                    prefix_name(join(folder, name), name, normcase(base),
                                Len(join(folder, base)), region),
                 scandir(folder))

\* Lines 808-826, the second loop of _search_prefix: one directory of the
\* os.walk at a time, then the directories it has kept.
RECURSIVE search_under(_, _, _, _)
under_dir(pwd, path, name, region, base) ==
    IF AbsolutePath_eq(path, pwd) THEN <<>>
    ELSE IF name \in folder_excludes THEN <<>>
    ELSE all_files_prefixed_by(join(path, base), region)

under_below(pwd, path, name, region, base) ==
    IF AbsolutePath_eq(path, pwd) \/ name \notin folder_excludes
    THEN search_under(pwd, path, region, base)
    ELSE <<>>

search_names(pwd, dirpath, region, base, dirnames) ==
    FlatMap(LAMBDA name : under_dir(pwd, join(dirpath, name), name, region, base),
            dirnames)
    \o FlatMap(LAMBDA name : under_below(pwd, join(dirpath, name), name, region, base),
               dirnames)

search_under(pwd, dirpath, region, base) ==
    search_names(pwd, dirpath, region, base, walk_dirnames(dirpath))

\* search_folder that skips the folders at or under the home directory.
search_folder_under_home(pwd, folder, region, base) ==
    IF AbsolutePath_le(get_home, folder) THEN <<>>
    ELSE search_under(pwd, folder, region, base)

\* Lines 801-807.
search_folder(pwd, folder, region, base) ==
    IF AbsolutePath_le(folder, get_home) THEN <<>>
    ELSE search_under(pwd, folder, region, base)

_search_prefix(su, region, base) ==
    <<SetupCalled>>
    \o FlatMap(LAMBDA folder : prefix_in(folder, stat(folder), base, region),
               _folder_iterate(su, TRUE))
    \o FlatMap(LAMBDA folder : search_folder(su.pwd, folder, region, base),
               _folder_iterate(su, FALSE))

-----------------------------------------------------------------------------
(* candidates_from_string.  `it` is what the folder_iterate argument does    *)
(* when the loop starts it: [raised, folders], raised being the class of    *)
(* the exception it raises, or "" when it yields `folders`.                 *)

Iterates(folders) == [raised |-> "", folders |-> folders]
IterateRaises(exc) == [raised |-> exc, folders |-> <<>>]

\* first_missing that climbs to the nearest directory that exists.
RECURSIVE first_missing_existing(_)
first_missing_existing(path) ==
    IF ~is_path_root(path) /\ ~isdir(path)
    THEN first_missing_existing(dirname(path))
    ELSE path

\* first_missing without the loop: the parent of the attempted path.
first_missing_deepest(path) == path

\* The loop at lines 253-257: from the parent of the missing path upwards,
\* the first path whose own parent is a directory.
RECURSIVE first_missing(_)
first_missing(path) ==
    IF ~is_path_root(path) /\ ~isdir(dirname(path))
    THEN first_missing(dirname(path))
    ELSE path

\* absolute_at without the check that a file can be read.
absolute_at_unchecked(region, path, st) ==
    IF st.kind = "file" THEN <<FileFound(region, path)>>
    ELSE IF st.kind = "dir" THEN <<FolderFound(region, path)>>
    ELSE IF isdir(dirname(path)) THEN <<FileNotFound(region, path)>>
    ELSE <<FolderNotFound(region, first_missing(dirname(path)))>>

\* Lines 214-229 and 243-258: the candidate for an absolute path, st being
\* its status.
absolute_at(region, path, st) ==
    IF st.kind = "file" THEN
        IF st.readable THEN <<FileFound(region, path)>> ELSE <<>>
    ELSE IF st.kind = "dir" THEN <<FolderFound(region, path)>>
    ELSE IF isdir(dirname(path)) THEN <<FileNotFound(region, path)>>
    ELSE <<FolderNotFound(region, first_missing(dirname(path)))>>

from_absolute(region, path) == absolute_at(region, path, stat(path))

\* Lines 233-240 and 262-269: the candidate in one folder, st being the
\* status of abspath and dirpath the path the folder test is made on.
relative_at(region, abspath, st, dirpath) ==
    IF st.kind = "file" THEN
        IF st.readable THEN <<FileFound(region, abspath)>> ELSE <<>>
    ELSE IF isdir(dirpath) THEN <<FolderFound(region, dirpath)>>
    ELSE <<>>

relative_in(region, abspath, dirpath) ==
    relative_at(region, abspath, stat(abspath), dirpath)

\* Lines 231-240: a relative path that environment expansion changes; the
\* folder test at line 239 is made on the path itself.
from_relative_unexpanded(region, path, it) ==
    IF it.raised # "" THEN <<Raised(it.raised)>>
    ELSE <<SetupCalled>>
         \o FlatMap(LAMBDA folder :
                        relative_in(region, normpath(join(folder, path)), path),
                    it.folders)

\* Lines 260-269: a relative path.
from_relative(region, expanded, it) ==
    IF it.raised # "" THEN <<Raised(it.raised)>>
    ELSE <<SetupCalled>>
         \o FlatMap(LAMBDA folder :
                        relative_in(region, normpath(join(folder, expanded)),
                                    normpath(join(folder, expanded))),
                    it.folders)

candidates_of(path, expanded, it, region) ==
    (IF path # expanded
     THEN (IF isabs(path) THEN from_absolute(region, path)
           ELSE from_relative_unexpanded(region, path, it))
     ELSE <<>>)
    \o (IF isabs(expanded) THEN from_absolute(region, expanded)
        ELSE from_relative(region, expanded, it))

candidates_from_string(text, it, region) ==
    candidates_of(expanduser(text), expanduser(expandvars(text)), it, region)

\* select_longest_path and select_longest_region: the loop, from candidate i
\* on, with the best so far.  NoCandidate is the None they return.
NoCandidate == Candidate("None", NoRegion, <<>>)

RECURSIVE select_longest_path_from(_, _, _, _)
select_longest_path_from(candidates, i, result, maxlen) ==
    IF i > Len(candidates) THEN result
    ELSE IF Len(candidates[i].path) > maxlen
    THEN select_longest_path_from(candidates, i + 1, candidates[i],
                                  Len(candidates[i].path))
    ELSE select_longest_path_from(candidates, i + 1, result, maxlen)

select_longest_path(candidates) ==
    select_longest_path_from(candidates, 1, NoCandidate, -1)

\* select_longest_region_from with `>=` for `>`: the last of the longest.
RECURSIVE select_longest_region_last(_, _, _, _)
select_longest_region_last(candidates, i, result, maxlen) ==
    IF i > Len(candidates) THEN result
    ELSE IF region_size(candidates[i].region) >= maxlen
    THEN select_longest_region_last(candidates, i + 1, candidates[i],
                                    region_size(candidates[i].region))
    ELSE select_longest_region_last(candidates, i + 1, result, maxlen)

RECURSIVE select_longest_region_from(_, _, _, _)
select_longest_region_from(candidates, i, result, maxlen) ==
    IF i > Len(candidates) THEN result
    ELSE IF region_size(candidates[i].region) > maxlen
    THEN select_longest_region_from(candidates, i + 1, candidates[i],
                                    region_size(candidates[i].region))
    ELSE select_longest_region_from(candidates, i + 1, result, maxlen)

select_longest_region(candidates) ==
    select_longest_region_from(candidates, 1, NoCandidate, -1)

-----------------------------------------------------------------------------
(* gidopen_in_view: the two handlers *)

\* _handle_click_region that leaves the region of the candidates at its
\* default, as the clipboard variant does.
_handle_click_region_default(su, region) ==
    <<TextFound(region, substr_region(region[1], region[2]))>>
    \o candidates_from_string(substr_region(region[1], region[2]),
                              Iterates(_folder_iterate(su, TRUE)), Region(0, 0))

_handle_click_region(su, region) ==
    <<TextFound(region, substr_region(region[1], region[2]))>>
    \o candidates_from_string(substr_region(region[1], region[2]),
                              Iterates(_folder_iterate(su, TRUE)), region)

\* Lines 631-639: the text around the click that is likely part of a path.
click_back(w) == IF w[1] = w[2] /\ w[1] # 0 THEN expand_path(w[1] - 1, w[1]) ELSE w

click_forth(empty, w) ==
    IF empty /\ w[2] < Len(buffer) /\ w[2] - w[1] < 2
    THEN expand_path(w[2], w[2] + 1) ELSE w

click_around(w) == click_forth(w[1] = w[2], click_back(w))

click_window(click_point) == click_around(expand_path(click_point, click_point))

\* prefix_yield that keeps a candidate no directory of which is matched.
prefix_yield_always(candidate, region) == <<[candidate EXCEPT !.region = region]>>

\* Lines 692-715: what the loop over _search_prefix does with one candidate
\* whose region _expand_left has made `region`.
prefix_yield(candidate, region) ==
    IF region # candidate.region THEN <<[candidate EXCEPT !.region = region]>>
    ELSE IF \/ /\ region_begin(region) = 2
               /\ substr(0) = "."
               /\ is_path_sep(substr(1))
            \/ /\ region_begin(region) > 2
               /\ ~is_likely_path_char(substr(region_begin(region) - 3))
               /\ substr(region_begin(region) - 2) = "."
               /\ is_path_sep(substr(region_begin(region) - 1))
    THEN <<candidate>>
    ELSE <<>>

prefix_candidate(candidate) ==
    IF IsMark(candidate) THEN <<candidate>>
    ELSE prefix_yield(candidate,
                      _expand_left(candidate.region, dirname(candidate.path)))

\* contains_candidate that keeps a candidate only as the loop over
\* _search_prefix does.
contains_candidate_as_prefix(candidate) == prefix_candidate(candidate)

\* Lines 677-681: what the loop over _search_contains does with one.
contains_candidate(candidate) ==
    IF IsMark(candidate) THEN <<candidate>>
    ELSE <<[candidate EXCEPT !.region =
                _expand_left(candidate.region, dirname(candidate.path))]>>

\* Lines 673-715.
click_base(su, region, path, base) ==
    IF base = path
    THEN FlatMap(contains_candidate, _search_contains(su, region, base))
    ELSE FlatMap(prefix_candidate,
                 _search_prefix(su, Region(region[2] - Len(base), region[2]), base))

\* Lines 670-671: `second` is what the check of the expanded path yields.
click_rest(su, region, path, second) ==
    IF Found(second) THEN second
    ELSE second \o click_base(su, region, path, basename(path))

\* Lines 666-669.
click_expanded(su, region, path, expanded) ==
    click_rest(su, region, path,
               IF expanded # path THEN check_absolute_path(region, expanded)
               ELSE <<>>)

\* click_search that goes on to the later searches whatever the check of
\* the path has found.
click_search_all(su, region, path, first) ==
    first \o click_expanded(su, region, path, expandvars(path))

\* Lines 662-664: `first` is what the check of the path yields.
click_search(su, region, path, first) ==
    IF Found(first) THEN first
    ELSE first \o click_expanded(su, region, path, expandvars(path))

\* Lines 645-649.
click_path(su, begin, path) ==
    IF path = <<>> THEN <<>>
    ELSE click_search(su, Region(begin, begin + Len(path)), path,
                      check_absolute_path(Region(begin, begin + Len(path)), path))

click_from(su, w) ==
    click_path(su, w[1], rstrip(substr_region(w[1], w[2]), {"/", "."}))

\* _handle_click_point that treats the text around the click as a selection.
_handle_click_point_as_region(su, click_point) ==
    _handle_click_region(su, click_window(click_point))

_handle_click_point(su, click_point) == click_from(su, click_window(click_point))

-----------------------------------------------------------------------------
(* description *)

OfKind(candidates, kind) == SelectSeq(candidates, LAMBDA c : c.kind = kind)

\* The offset of the first exception in a stream, or 0.
FirstRaise(stream) ==
    IF \E i \in 1..Len(stream) : stream[i].kind = "Exception"
    THEN CHOOSE i \in 1..Len(stream) :
            /\ stream[i].kind = "Exception"
            /\ \A j \in 1..(i - 1) : stream[j].kind # "Exception"
    ELSE 0

\* What the `for candidate in candidates` loop gets before an exception.
consumed_to(stream, n) == IF n = 0 THEN stream ELSE SubSeq(stream, 1, n - 1)
Consumed(stream) == consumed_to(stream, FirstRaise(stream))

Decision(action, path, label) == [action |-> action, path |-> path, label |-> label]

\* NoDecision with the empty path gidopen_in_window stores.
NoDecisionEmptyPath == Decision(None, <<>>, <<>>)

NoDecision == Decision(None, NoneText, NoneText)

\* decide_file with the label stored where the path belongs.
decide_file_label(path, label, linecol) ==
    IF linecol = NoLineCol THEN Decision(CONTEXT_ACTION_FILE_OPEN, label, label)
    ELSE Decision(CONTEXT_ACTION_FILE_GOTO,
                  label \o <<":">> \o linecol[1] \o <<":">> \o format_col(linecol[2]),
                  label \o <<":">> \o linecol[1])

\* decide_file that leaves the column out of the path when there is none.
decide_file_nocol(path, label, linecol) ==
    IF linecol = NoLineCol THEN Decision(CONTEXT_ACTION_FILE_OPEN, path, label)
    ELSE IF linecol[2] = IntZero
    THEN Decision(CONTEXT_ACTION_FILE_GOTO,
                  path \o <<":">> \o linecol[1],
                  label \o <<":">> \o linecol[1])
    ELSE Decision(CONTEXT_ACTION_FILE_GOTO,
                  path \o <<":">> \o linecol[1] \o <<":">> \o linecol[2],
                  label \o <<":">> \o linecol[1] \o <<":">> \o linecol[2])

\* Lines 899-911: the best file, its label and what follows it in the buffer.
decide_file(path, label, linecol) ==
    IF linecol = NoLineCol THEN Decision(CONTEXT_ACTION_FILE_OPEN, path, label)
    ELSE Decision(CONTEXT_ACTION_FILE_GOTO,
                  path \o <<":">> \o linecol[1] \o <<":">> \o format_col(linecol[2]),
                  IF linecol[2] = IntZero
                  THEN label \o <<":">> \o linecol[1]
                  ELSE label \o <<":">> \o linecol[1] \o <<":">> \o linecol[2])

\* Lines 915-921 and 1123-1129.
decide_folder(su, path) ==
    Decision(IF _folder_in_project(su, path)
             THEN CONTEXT_ACTION_FOLDER_REVEAL
             ELSE CONTEXT_ACTION_FOLDER_ADD,
             path, _shorten_name(su, path))

\* view_decide with the actions of the two missing kinds exchanged.
view_decide_swapped(su, file, folder, notfile, notfolder) ==
    IF file # NoCandidate
    THEN decide_file(file.path, _shorten_name(su, file.path),
                     get_line_col(region_end(file.region)))
    ELSE IF folder # NoCandidate THEN decide_folder(su, folder.path)
    ELSE IF notfile # NoCandidate
    THEN Decision(CONTEXT_ACTION_FOLDER_NEW, notfile.path,
                  _shorten_name(su, notfile.path))
    ELSE IF notfolder # NoCandidate
    THEN Decision(CONTEXT_ACTION_FILE_NEW, notfolder.path,
                  _shorten_name(su, notfolder.path))
    ELSE NoDecision

\* Lines 897-937: file, folder, notfile and notfolder are the best of each
\* kind, or NoCandidate.
view_decide(su, file, folder, notfile, notfolder) ==
    IF file # NoCandidate
    THEN decide_file(file.path, _shorten_name(su, file.path),
                     get_line_col(region_end(file.region)))
    ELSE IF folder # NoCandidate THEN decide_folder(su, folder.path)
    ELSE IF notfile # NoCandidate
    THEN Decision(CONTEXT_ACTION_FILE_NEW, notfile.path,
                  _shorten_name(su, notfile.path))
    ELSE IF notfolder # NoCandidate
    THEN Decision(CONTEXT_ACTION_FOLDER_NEW, notfolder.path,
                  _shorten_name(su, notfolder.path))
    ELSE NoDecision

\* gidopen_in_view._best
view_best(options) == select_longest_region(options)

view_decision(su, candidates) ==
    view_decide(su,
                view_best(OfKind(candidates, "FileFound")),
                view_best(OfKind(candidates, "FolderFound")),
                view_best(OfKind(candidates, "FileNotFound")),
                view_best(OfKind(candidates, "FolderNotFound")))

\* view_result that takes the stream for one that has raised nothing.
view_result_uncaught(su, stream, raised, decision) ==
    [context |-> <<decision.action, decision.path>>,
     message |-> <<decision.action, decision.label>>,
     yielded |-> Yields(Consumed(stream)),
     setup |-> \/ \E i \in 1..Len(Consumed(stream)) : stream[i].kind = "Setup"
               \/ decision.action # None,
     su |-> su]

\* Lines 939-944: what description stores and returns, and whether it has
\* called _setup_folders.  `raised` is the offset of the exception in the
\* stream, or 0.
view_result(su, stream, raised, decision) ==
    [context |-> IF raised # 0 THEN <<CONTEXT_ACTION_ERROR, NoneText>>
                 ELSE <<decision.action, decision.path>>,
     message |-> IF raised # 0 THEN <<"GidOpen:", stream[raised].path>>
                 ELSE <<decision.action, decision.label>>,
     yielded |-> Yields(Consumed(stream)),
     setup |-> \/ \E i \in 1..Len(Consumed(stream)) : stream[i].kind = "Setup"
               \/ (raised = 0 /\ decision.action # None),
     su |-> su]

view_outcome(su, stream) ==
    view_result(su, stream, FirstRaise(stream),
                view_decision(su, Yields(Consumed(stream))))

\* gidopen_in_view.description(event) for a click at click_point with the
\* selection `selected`; su is what _setup_folders computes when called.
view_description(su, selected, click_point) ==
    view_outcome(su,
                 IF region_contains(selected, click_point) /\ ~region_empty(selected)
                 THEN _handle_click_region(su, selected)
                 ELSE _handle_click_point(su, click_point))

\* gidopen_in_window._setup_folders: with the memo empty, line 1000 calls
\* self.window, which is the window and no method, and the call raises.
window_setup_raises == w_pwd = NoneText
window_memo == [pwd |-> w_pwd, folders |-> w_folders, labels |-> w_labels]

\* gidopen_in_window._setup_folders: the TypeError of line 1000, or the memo.
window_setup_folders ==
    IF w_pwd = NoneText THEN [raised |-> "TypeError"]
    ELSE [raised |-> "", pwd |-> w_pwd, folders |-> w_folders, labels |-> w_labels]

window_folder_iterate ==
    IF window_setup_raises THEN IterateRaises("TypeError")
    ELSE Iterates(_folder_iterate(window_memo, TRUE))

\* gidopen_in_window._best
window_best(options) == select_longest_path(options)

\* Lines 1113-1143.
window_decide(su, file, folder, notfile, notfolder) ==
    IF file # NoCandidate
    THEN Decision(CONTEXT_ACTION_FILE_OPEN, file.path, _shorten_name(su, file.path))
    ELSE IF folder # NoCandidate THEN decide_folder(su, folder.path)
    ELSE IF notfile # NoCandidate
    THEN Decision(CONTEXT_ACTION_FILE_NEW, notfile.path,
                  _shorten_name(su, notfile.path))
    ELSE IF notfolder # NoCandidate
    THEN Decision(CONTEXT_ACTION_FOLDER_NEW, notfolder.path,
                  _shorten_name(su, notfolder.path))
    ELSE Decision(None, <<>>, <<>>)

window_decision(su, candidates) ==
    window_decide(su,
                  window_best(OfKind(candidates, "FileFound")),
                  window_best(OfKind(candidates, "FolderFound")),
                  window_best(OfKind(candidates, "FileNotFound")),
                  window_best(OfKind(candidates, "FolderNotFound")))

\* Lines 1145-1157.  A candidate of one of the four kinds makes description
\* call _shorten_name or _folder_in_project, and these _setup_folders.
window_result(stream, raised, unlabelled, decision) ==
    [action |-> IF raised # 0 \/ unlabelled THEN None ELSE decision.action,
     path |-> IF raised # 0 \/ unlabelled THEN <<>> ELSE decision.path,
     message |-> IF raised # 0 THEN <<"GidOpen:", stream[raised].path>>
                 ELSE IF unlabelled THEN <<"GidOpen:", <<"TypeError">>>>
                 ELSE IF decision.action = None
                 THEN <<"GidOpen requires path to be selected here", <<>>>>
                 ELSE <<decision.action, decision.label>>,
     yielded |-> Yields(Consumed(stream))]

window_outcome(stream) ==
    window_result(stream, FirstRaise(stream),
                  /\ window_setup_raises
                  /\ \E i \in 1..Len(stream) :
                         stream[i].kind \in {"FileFound", "FolderFound",
                                             "FileNotFound", "FolderNotFound"},
                  window_decision(window_memo, Yields(Consumed(stream))))

\* gidopen_in_window.description() with `text` on the clipboard.
window_description(text) ==
    window_outcome(candidates_from_string(text, window_folder_iterate, Region(0, 0)))

\* The setting 'gidopen_in_view' before it is set, and after run.
NoContext == <<>>

is_visible == context # NoContext /\ context[1] # None
is_enabled == context # NoContext /\ context[2] # NoneText
window_is_enabled == w_path # <<>>

-----------------------------------------------------------------------------
(* The files of the tests (test_gidopen.py, setUp) and the texts clicked    *)

\* How many digits a line or column number of a text has at most, and how
\* many directories of an attempted path are missing at most.
MaxDigits == 2
MaxMissing == 2

n_tmp == <<"t", "m", "p">>
n_parent == <<"p", "a", "r", "e", "n", "t">>
n_present == <<"p", "r", "e", "s", "e", "n", "t">>
n_also_present == <<"a", "l", "s", "o", " ", "p", "r", "e", "s", "e", "n", "t">>
n_secret == <<"s", "e", "c", "r", "e", "t">>
n_absent == <<"a", "b", "s", "e", "n", "t">>
n_noexist == <<"n", "o", "e", "x", "i", "s", "t">>
n_nomatch == <<"n", "o", "m", "a", "t", "c", "h">>
n_notexist == <<"n", "o", "t", "e", "x", "i", "s", "t">>
n_notes == <<"n", "o", "t", "e", "s">>
n_srv == <<"s", "r", "v">>
n_sub == <<"s", "u", "b">>
n_file == <<"f", "i", "l", "e">>

tmpdir == join(join(Root, n_tmp), n_parent)
file_present == join(tmpdir, n_present)
also_present == join(tmpdir, n_also_present)
file_secret == join(tmpdir, n_secret)
file_absent == join(tmpdir, n_absent)
srvdir == join(Root, n_srv)
home_present == join(EnvHome, n_notes)

Dir(path, readable) == [path |-> path, kind |-> "dir", readable |-> readable]
File(path, readable) == [path |-> path, kind |-> "file", readable |-> readable]

\* The tree of one scenario.
Tree(secret_readable, listable, mirror) ==
    <<Dir(join(Root, n_tmp), TRUE),
      Dir(tmpdir, listable),
      File(file_present, TRUE),
      File(also_present, TRUE),
      File(file_secret, secret_readable),
      Dir(dirname(EnvHome), TRUE),
      Dir(EnvHome, TRUE),
      File(home_present, TRUE),
      Dir(srvdir, TRUE)>>
    \o (IF mirror
        THEN <<Dir(join(srvdir, n_parent), TRUE),
               File(join(join(srvdir, n_parent), n_secret), TRUE),
               File(join(join(srvdir, n_parent), n_present), TRUE)>>
        ELSE <<>>)

Scenario(secret_readable, listable, mirror, reversed, folders, setting, file) ==
    [fs |-> [entries |-> Tree(secret_readable, listable, mirror),
             reversed |-> reversed],
     window_folders |-> folders,
     pwd_setting |-> setting,
     winvar_file |-> file]

-----------------------------------------------------------------------------
(* reveal_folder and add_folder_to_project                                  *)

\* The characters of the names of the model, in code point order.
Alphabet ==
    <<" ", ".", "0", "1", "2", "3", "4", "5", "6", "7", "8", "9", "_",
      "a", "b", "c", "d", "e", "f", "g", "h", "i", "j", "k", "l", "m",
      "n", "o", "p", "q", "r", "s", "t", "u", "v", "w", "x", "y", "z">>

rank(c) ==
    IF \E i \in 1..Len(Alphabet) : Alphabet[i] = c
    THEN CHOOSE i \in 1..Len(Alphabet) : Alphabet[i] = c
    ELSE 0

\* a < b for the strings str.casefold leaves alone.
RECURSIVE casefold_lt(_, _)
casefold_lt(a, b) ==
    IF b = <<>> THEN FALSE
    ELSE IF a = <<>> THEN TRUE
    ELSE IF rank(Head(a)) # rank(Head(b)) THEN rank(Head(a)) < rank(Head(b))
    ELSE casefold_lt(Tail(a), Tail(b))

\* sorted(names, key=str.casefold)
RECURSIVE sorted(_)
sorted(names) ==
    IF names = <<>> THEN <<>>
    ELSE LET i == CHOOSE i \in 1..Len(names) :
                    \A j \in 1..Len(names) :
                        /\ ~casefold_lt(names[j], names[i])
                        /\ (j < i => casefold_lt(names[i], names[j]))
         IN <<names[i]>> \o sorted(SubSeq(names, 1, i - 1)
                                   \o SubSeq(names, i + 1, Len(names)))

\* reveal_folder: the file it opens, or NoneText when the walk finds none.
\* `stack` holds the directories os.walk has still to visit.
RECURSIVE reveal_walk(_)
reveal_visit(stack, dirpath, filenames, dirnames) ==
    IF filenames # <<>> THEN join(dirpath, filenames[1])
    ELSE reveal_walk([i \in 1..Len(dirnames) |-> join(dirpath, dirnames[i])]
                     \o Tail(stack))
reveal_walk(stack) ==
    IF stack = <<>> THEN NoneText
    ELSE reveal_visit(stack, Head(stack), sorted(walk_filenames(Head(stack))),
                      sorted(walk_dirnames(Head(stack))))

reveal_command(filepath) ==
    IF filepath = NoneText THEN <<"reveal_folder">>
    ELSE <<"reveal_in_side_bar", filepath>>
reveal_folder(path) ==
    reveal_command(IF isdir(path) THEN reveal_walk(<<path>>) ELSE NoneText)

\* Lines 296-310.  `keys` are the keys of window.project_data(), none when
\* it is None or empty: project['folders'] raises when the project has data
\* and no folders.
add_folder_to_project(keys, folders, path) ==
    IF keys = {}
    THEN [raised |-> "", folders |-> <<path>>, keys |-> {"folders"}]
    ELSE IF "folders" \notin keys
    THEN [raised |-> "KeyError", folders |-> folders, keys |-> keys]
    ELSE [raised |-> "", folders |-> Append(folders, path), keys |-> keys]

-----------------------------------------------------------------------------
(* The commands as a state machine                                          *)

Call(op, point, region, text) ==
    [op |-> op, point |-> point, region |-> region, text |-> text]

\* The selections tried: none, and the stretches of the buffer that start
\* at the buffer's start or after '=' or ' ' and end at the buffer's end
\* or before ':' or ' '.
SelStarts == {0} \cup {i \in 1..size : buffer[i] \in {"=", " "}}
SelEnds == {size} \cup {i \in 0..(size - 1) : buffer[i + 1] \in {":", " "}}
Selections ==
    {Region(0, 0)}
    \cup {Region(r[1], r[2]) : r \in {x \in SelStarts \X SelEnds : x[2] > x[1]}}

\* Where the context menu is opened: anywhere with nothing selected, and
\* with a selection at its start or at the end of the buffer.
Clicks(selected) ==
    IF region_empty(selected) THEN 0..size
    ELSE {region_begin(selected), size}

\* The state after construction of both commands, in one of `cases`: a case
\* is a scenario and the text in the buffer.
InitOf(cases) ==
    /\ \E c \in cases :
        /\ fs = c[1].fs
        /\ window_folders = c[1].window_folders
        /\ project_keys = IF "project_keys" \in DOMAIN c[1] THEN c[1].project_keys
                          ELSE IF c[1].window_folders = <<>> THEN {}
                          ELSE {"folders"}
        /\ pwd_setting = c[1].pwd_setting
        /\ winvar_file = c[1].winvar_file
        /\ buffer = c[2]
    /\ sel = Region(0, 0)
    /\ clipboard = <<>>
    /\ context = NoContext
    /\ message = <<>>
    /\ yielded = <<>>
    /\ v_pwd = NoneText
    /\ v_folders = <<>>
    /\ v_labels = <<>>
    /\ w_action = None
    /\ w_path = <<>>
    /\ w_pwd = NoneText
    /\ w_folders = <<>>
    /\ w_labels = <<>>
    /\ dispatched = <<>>
    /\ last = Call("init", -1, NoRegion, <<>>)

\* Lines 863 and 939-943: what description leaves behind.
ViewStore(out, selected, click_point) ==
    /\ sel' = selected
    /\ context' = out.context
    /\ message' = out.message
    /\ yielded' = out.yielded
    /\ v_pwd' = IF out.setup THEN out.su.pwd ELSE NoneText
    /\ v_folders' = IF out.setup THEN out.su.folders ELSE v_folders
    /\ v_labels' = IF out.setup THEN out.su.labels ELSE v_labels
    /\ last' = Call("view.description", click_point, selected, <<>>)
    /\ UNCHANGED <<fs, window_folders, project_keys, pwd_setting, winvar_file, buffer,
                   clipboard, w_action, w_path, w_pwd, w_folders, w_labels,
                   dispatched>>

\* The user selects `selected` (or nothing) and opens the context menu at
\* click_point: gidopen_in_view.description(event).
ViewDescription(selected, click_point) ==
    ViewStore(view_description(view_setup_folders, selected, click_point),
              selected, click_point)

\* What gidopen_in_view._setup_folders returns, called in this state: the
\* memo, or what it computes of the window.
view_memo ==
    IF v_pwd # NoneText
    THEN [pwd |-> v_pwd, folders |-> v_folders, labels |-> v_labels]
    ELSE view_setup_folders

\* add_folder_to_project as run calls it, and line 975 when it returns:
\* `done` is what run has done by then.
ViewAdd(add, done) ==
    IF add.raised # "" THEN
        /\ dispatched' = <<"raise", <<add.raised>>>>
        /\ UNCHANGED <<window_folders, project_keys, context>>
    ELSE
        /\ window_folders' = add.folders
        /\ project_keys' = add.keys
        /\ dispatched' = done
        /\ context' = NoContext

\* Lines 469-475: the setting names a directory.
setting_is_directory ==
    /\ pwd_setting # NoneText
    /\ isabs(expanduser(pwd_setting))
    /\ isdir(expanduser(pwd_setting))

\* Lines 965-967, when os.mkdir has made the folder.  su is the memo, or
\* what _setup_folders computes of the window; with no memo line 966 looks
\* for the working directory in the filesystem that has the new folder.
ViewMkdir(su, path) ==
    /\ fs' = mkdir(path)
    /\ v_pwd' = IF v_pwd # NoneText THEN v_pwd
                ELSE IF setting_is_directory' THEN expanduser(pwd_setting)
                ELSE default_pwd(su.folders)
    /\ v_folders' = su.folders
    /\ v_labels' = su.labels
    /\ IF _folder_in_project(su, path) THEN
            /\ dispatched' = <<"mkdir", path>>
            /\ context' = NoContext
            /\ UNCHANGED <<window_folders, project_keys>>
       ELSE ViewAdd(add_folder_to_project(project_keys, window_folders, path),
                    <<"mkdir", path>>)

\* ViewDispatch that keeps the stored decision after it has opened a file.
ViewDispatch_keeps(action, path) ==
    IF action = CONTEXT_ACTION_FOLDER_ADD THEN
        /\ ViewAdd(add_folder_to_project(project_keys, window_folders, path),
                   <<"set_project_data", path>>)
        /\ UNCHANGED <<fs, v_pwd, v_folders, v_labels>>
    ELSE IF action = CONTEXT_ACTION_FOLDER_REVEAL THEN
        /\ dispatched' = reveal_folder(path)
        /\ context' = NoContext
        /\ UNCHANGED <<fs, window_folders, project_keys, v_pwd, v_folders, v_labels>>
    ELSE IF action = CONTEXT_ACTION_FOLDER_NEW THEN
        IF mkdir_raises(path) THEN
            /\ dispatched' = <<"raise", <<"OSError">>>>
            /\ UNCHANGED <<fs, window_folders, project_keys, context, v_pwd,
                           v_folders, v_labels>>
        ELSE ViewMkdir(view_memo, path)
    ELSE IF path = NoneText THEN
        \* window.open_file(None, 0) raises in the host
        /\ dispatched' = <<"raise", <<"TypeError">>>>
        /\ UNCHANGED <<fs, window_folders, project_keys, context, v_pwd, v_folders,
                       v_labels>>
    ELSE
        /\ dispatched' = <<IF action = CONTEXT_ACTION_FILE_GOTO
                           THEN "open_file ENCODED_POSITION" ELSE "open_file",
                           path>>
        /\ UNCHANGED <<fs, window_folders, project_keys, context, v_pwd, v_folders,
                       v_labels>>

\* Lines 958-975.
ViewDispatch(action, path) ==
    IF action = CONTEXT_ACTION_FOLDER_ADD THEN
        /\ ViewAdd(add_folder_to_project(project_keys, window_folders, path),
                   <<"set_project_data", path>>)
        /\ UNCHANGED <<fs, v_pwd, v_folders, v_labels>>
    ELSE IF action = CONTEXT_ACTION_FOLDER_REVEAL THEN
        /\ dispatched' = reveal_folder(path)
        /\ context' = NoContext
        /\ UNCHANGED <<fs, window_folders, project_keys, v_pwd, v_folders, v_labels>>
    ELSE IF action = CONTEXT_ACTION_FOLDER_NEW THEN
        IF mkdir_raises(path) THEN
            /\ dispatched' = <<"raise", <<"OSError">>>>
            /\ UNCHANGED <<fs, window_folders, project_keys, context, v_pwd,
                           v_folders, v_labels>>
        ELSE ViewMkdir(view_memo, path)
    ELSE IF path = NoneText THEN
        \* window.open_file(None, 0) raises in the host
        /\ dispatched' = <<"raise", <<"TypeError">>>>
        /\ UNCHANGED <<fs, window_folders, project_keys, context, v_pwd, v_folders,
                       v_labels>>
    ELSE
        /\ dispatched' = <<IF action = CONTEXT_ACTION_FILE_GOTO
                           THEN "open_file ENCODED_POSITION" ELSE "open_file",
                           path>>
        /\ context' = NoContext
        /\ UNCHANGED <<fs, window_folders, project_keys, v_pwd, v_folders, v_labels>>

\* gidopen_in_view.run(edit, event)
ViewRun ==
    /\ last' = Call("view.run", -1, NoRegion, <<>>)
    /\ UNCHANGED <<pwd_setting, winvar_file, buffer, sel, clipboard, message,
                   yielded, w_action, w_path, w_pwd, w_folders, w_labels>>
    /\ IF context = NoContext THEN
            /\ dispatched' = <<>>
            /\ UNCHANGED <<fs, window_folders, project_keys, context, v_pwd,
                           v_folders, v_labels>>
       ELSE ViewDispatch(context[1], context[2])

\* Lines 1145-1157: what description leaves behind.  The memo stays as it
\* is: _setup_folders raises before it stores anything.
WindowStore(out, selected, text) ==
    /\ sel' = selected
    /\ clipboard' = text
    /\ w_action' = out.action
    /\ w_path' = out.path
    /\ message' = out.message
    /\ yielded' = out.yielded
    /\ last' = Call("window.description", -1, selected, text)
    /\ UNCHANGED <<fs, window_folders, project_keys, pwd_setting, winvar_file, buffer,
                   context, v_pwd, v_folders, v_labels, w_pwd, w_folders,
                   w_labels, dispatched>>

WindowCopy(selected, text) == WindowStore(window_description(text), selected, text)

\* gidopen_in_window.description(): the `copy` command puts the selected
\* text, or with nothing selected the line, on the clipboard.
WindowDescription(selected) ==
    WindowCopy(selected,
               IF region_empty(selected) THEN buffer
               ELSE substr_region(region_begin(selected), region_end(selected)))

\* add_folder_to_project as run calls it, and lines 1189-1190 when it
\* returns: `done` is what run has done by then.
WindowAdd(add, done) ==
    IF add.raised # "" THEN
        /\ dispatched' = <<"raise", <<add.raised>>>>
        /\ UNCHANGED <<window_folders, project_keys, w_action, w_path>>
    ELSE
        /\ window_folders' = add.folders
        /\ project_keys' = add.keys
        /\ dispatched' = done
        /\ w_action' = None
        /\ w_path' = <<>>

\* Lines 1179-1181, when os.mkdir has made the folder.
WindowMkdir(su, path) ==
    /\ fs' = mkdir(path)
    /\ UNCHANGED <<w_pwd, w_folders, w_labels>>
    /\ IF _folder_in_project(su, path) THEN
            /\ dispatched' = <<"mkdir", path>>
            /\ w_action' = None
            /\ w_path' = <<>>
            /\ UNCHANGED <<window_folders, project_keys>>
       ELSE WindowAdd(add_folder_to_project(project_keys, window_folders, path),
                      <<"mkdir", path>>)

\* gidopen_in_window.run()
WindowRun ==
    /\ last' = Call("window.run", -1, NoRegion, <<>>)
    /\ UNCHANGED <<pwd_setting, winvar_file, buffer, sel, clipboard, message,
                   yielded, context, v_pwd, v_folders, v_labels>>
    /\ IF w_action = None THEN
            /\ dispatched' = <<>>
            /\ UNCHANGED <<fs, window_folders, project_keys, w_action, w_path,
                           w_pwd, w_folders, w_labels>>
       ELSE IF w_action = CONTEXT_ACTION_FOLDER_ADD THEN
            /\ WindowAdd(add_folder_to_project(project_keys, window_folders, w_path),
                         <<"set_project_data", w_path>>)
            /\ UNCHANGED <<fs, w_pwd, w_folders, w_labels>>
       ELSE IF w_action = CONTEXT_ACTION_FOLDER_REVEAL THEN
            /\ dispatched' = reveal_folder(w_path)
            /\ w_action' = None
            /\ w_path' = <<>>
            /\ UNCHANGED <<fs, window_folders, project_keys, w_pwd, w_folders,
                           w_labels>>
       ELSE IF w_action = CONTEXT_ACTION_FOLDER_NEW THEN
            IF mkdir_raises(w_path) \/ window_setup_raises THEN
                /\ dispatched' = <<"raise", <<IF mkdir_raises(w_path)
                                              THEN "OSError" ELSE "TypeError">>>>
                /\ fs' = IF mkdir_raises(w_path) THEN fs ELSE mkdir(w_path)
                /\ UNCHANGED <<window_folders, project_keys, w_action, w_path,
                               w_pwd, w_folders, w_labels>>
            ELSE WindowMkdir(window_memo, w_path)
       ELSE /\ dispatched' = <<IF w_action = CONTEXT_ACTION_FILE_GOTO
                               THEN "open_file ENCODED_POSITION" ELSE "open_file",
                               w_path>>
            /\ w_action' = None
            /\ w_path' = <<>>
            /\ UNCHANGED <<fs, window_folders, project_keys, w_pwd, w_folders,
                           w_labels>>

Next ==
    \/ \E selected \in Selections, click_point \in 0..size :
            click_point \in Clicks(selected) /\ ViewDescription(selected, click_point)
    \/ ViewRun
    \/ \E selected \in Selections : WindowDescription(selected)
    \/ WindowRun

-----------------------------------------------------------------------------
(* Scenarios and texts                                                      *)

\* The tree of the tests: the working directory is tmpdir, `secret` is not
\* readable, no project folders.
ScBase == Scenario(FALSE, TRUE, FALSE, FALSE, <<>>, tmpdir, NoneText)
\* `secret` is readable and directories give their names in reverse.
ScReadable == Scenario(TRUE, TRUE, FALSE, TRUE, <<>>, tmpdir, NoneText)
\* tmpdir may be entered but not listed.
ScUnlistable == Scenario(FALSE, FALSE, FALSE, FALSE, <<>>, tmpdir, NoneText)
\* /srv is a project folder and holds parent/present and parent/secret too.
ScMirror == Scenario(FALSE, TRUE, TRUE, FALSE, <<srvdir>>, tmpdir, NoneText)
\* /tmp and tmpdir are project folders, no setting, the current file is in
\* the home directory.
ScProject ==
    Scenario(TRUE, TRUE, TRUE, FALSE, <<join(Root, n_tmp), tmpdir>>, NoneText,
             home_present)

\* A number of n digits.
Number(n) == SubSeq(<<"1", "2", "3", "4", "5", "6", "7", "8", "9">>, 1, n)

\* An absolute path whose last k directories and leaf are missing.
RECURSIVE Missing(_)
Missing(k) ==
    IF k = 0 THEN join(Root, n_tmp)
    ELSE join(Missing(k - 1), IF k = 1 THEN n_noexist ELSE n_sub)

t_name == <<"N", "A", "M", "E", "=">>
t_open == <<"O", "p", "e", "n", " ", "t", "h", "e", " ", "f", "i", "l", "e", " ">>

\* The files of the tree that exist and can be read, and those that cannot.
\* `inner` lies inside `outer` on the filesystem, and is not `outer`.
NestedIn(inner, outer) ==
    /\ inner # outer
    /\ outer = Root \/ startswith(inner, outer \o <<"/">>)

\* The path is the directory, or nested in it on the filesystem.
Under(dir, path) == path = dir \/ NestedIn(path, dir)

ReadableFiles ==
    {fs.entries[i].path : i \in {j \in 1..Len(fs.entries) :
        fs.entries[j].kind = "file" /\ fs.entries[j].readable}}
UnreadableFiles ==
    {fs.entries[i].path : i \in {j \in 1..Len(fs.entries) :
        fs.entries[j].kind = "file" /\ ~fs.entries[j].readable}}

\* The text `path` stands in the buffer from offset b.
At(path, b) ==
    /\ b + Len(path) <= size
    /\ SubSeq(buffer, b + 1, b + Len(path)) = path

\* description has just handled a click at an offset of the text `path`
\* that stands at b, with nothing selected.
ClickedIn(path, b) ==
    /\ last.op = "view.description"
    /\ region_empty(last.region)
    /\ At(path, b)
    /\ last.point \in b..(b + Len(path))

\* description has just handled a click on the selection [b, e).
Selected(b, e) ==
    /\ last.op = "view.description"
    /\ last.region = Region(b, e)
    /\ b < e
    /\ last.point \in b..e

\* The plugin as loaded, with the path of a file in the buffer.
Init == InitOf({<<ScBase, file_present>>, <<ScProject, home_present>>})
Spec == Init /\ [][Next]_vars

-----------------------------------------------------------------------------
(* Clicks on the absolute path of a readable file                           *)

t_line == <<":">> \o Number(MaxDigits)

\* /srv is the project folder and the working directory: tmpdir is no base
\* directory.
ScAway == Scenario(FALSE, TRUE, FALSE, FALSE, <<srvdir>>, NoneText, NoneText)

CasesOpen ==
    ({ScBase} \X {t_name \o file_present, file_present \o <<".">>, also_present,
                  file_present \o t_line})
    \cup {<<ScReadable, file_secret>>, <<ScUnlistable, file_present>>,
          <<ScProject, home_present>>, <<ScMirror, file_present>>,
          <<ScAway, also_present>>}

InitOpen == InitOf(CasesOpen)
SpecOpen == InitOpen /\ [][Next]_vars

\* C1 as stated: after a click with nothing selected at any offset from the
\* first to just past the last character of the absolute path P of an
\* existing readable file, the stored decision is ('Open', P).
ClickOpensAbsolute ==
    \A P \in ReadableFiles : \A b \in 0..size :
        ClickedIn(P, b) => context = <<CONTEXT_ACTION_FILE_OPEN, P>>

\* How many characters of P stand before its first character that is not a
\* likely path character: all of them when it has none.
PathHead(P) ==
    IF \A i \in 1..Len(P) : is_likely_path_char(P[i]) THEN Len(P)
    ELSE (CHOOSE i \in 1..Len(P) :
            /\ ~is_likely_path_char(P[i])
            /\ \A j \in 1..(i - 1) : is_likely_path_char(P[j])) - 1

\* The text at b starts a run of likely path characters.
Preceded(b) == b = 0 \/ ~is_likely_path_char(buffer[b])

\* After the dots and slashes that stand at e, the run of likely path
\* characters ends.
Followed(e) ==
    \E k \in e..size :
        /\ \A j \in (e + 1)..k : buffer[j] \in {".", "/"}
        /\ k = size \/ ~is_likely_path_char(buffer[k + 1])

\* P's text at b is what a click in it expands to, or goes on from it: the
\* run of likely path characters around the click starts with P, and ends
\* inside P's name, after a character that is no dot, or, after dots and
\* slashes, behind P.
Delimited(P, b) ==
    /\ Preceded(b)
    /\ PathHead(P) > Len(P) - Len(basename(P))
    /\ P[PathHead(P)] # "."
    /\ PathHead(P) = Len(P) => Followed(b + Len(P))

\* No other entry of P's directory starts as P's name does up to its first
\* character that is not a likely path character.
NoLongerName(P) ==
    \A k \in 1..Len(fs.entries) :
        (fs.entries[k].path # P /\ dirname(fs.entries[k].path) = dirname(P)) =>
            ~startswith(basename(fs.entries[k].path),
                        SubSeq(P, Len(P) - Len(basename(P)) + 1, PathHead(P)))

\* description has just handled a click, with nothing selected, in P's text
\* at b, at an offset up to P's first character that is not a likely path
\* character, or to just past P's last character when it has none.
ClickedInHead(P, b) ==
    /\ last.op = "view.description"
    /\ region_empty(last.region)
    /\ At(P, b)
    /\ last.point \in b..(b + PathHead(P))

\* C1 amended: P's text is delimited in the buffer and the click stands no
\* further than P's first character that is not a likely path character.
\* Then the click stores ('Open', P) unless the text after P is one of the
\* line forms get_line_col reads, and then it stores 'Goto' with a path that
\* starts with P and ':', or the directory of P cannot be listed, and then
\* it stores ('Error', None), or the directory of P holds another entry that
\* starts as P's name does.
ClickOpensAbsoluteUnless ==
    \A P \in ReadableFiles : \A b \in 0..size :
        (ClickedInHead(P, b) /\ Delimited(P, b) /\ NoLongerName(P)) =>
            IF listdir_raises(dirname(P))
            THEN context = <<CONTEXT_ACTION_ERROR, NoneText>>
            ELSE IF get_line_col(b + Len(P)) # NoLineCol
            THEN /\ context[1] = CONTEXT_ACTION_FILE_GOTO
                 /\ startswith(context[2], P \o <<":">>)
            ELSE context = <<CONTEXT_ACTION_FILE_OPEN, P>>

\* The same for every click offset of P's text, whatever its characters.
ClickOpensAbsoluteAtEveryOffset ==
    \A P \in ReadableFiles : \A b \in 0..size :
        (ClickedIn(P, b) /\ Preceded(b) /\ NoLongerName(P)) =>
            IF listdir_raises(dirname(P))
            THEN context = <<CONTEXT_ACTION_ERROR, NoneText>>
            ELSE IF get_line_col(b + Len(P)) # NoLineCol
            THEN /\ context[1] = CONTEXT_ACTION_FILE_GOTO
                 /\ startswith(context[2], P \o <<":">>)
            ELSE context = <<CONTEXT_ACTION_FILE_OPEN, P>>

\* tmpdir is no base directory: a click in `also` of
\* '/tmp/parent/also present' has stored ('Open', P).
ClickBeforeSpaceOpens ==
    /\ ClickedInHead(also_present, 0)
    /\ v_pwd = srvdir
    /\ last.point = 14
    /\ context = <<CONTEXT_ACTION_FILE_OPEN, also_present>>

\* tmpdir is no base directory: a click in `present` of
\* '/tmp/parent/also present' is a click in the name `present`, which no
\* base directory holds, and has stored (None, None).
ClickAfterSpaceFindsNothing ==
    /\ ClickedIn(also_present, 0)
    /\ v_pwd = srvdir
    /\ last.point = 20
    /\ context = <<None, NoneText>>

\* A click just past the last character of NAME=/tmp/parent/present has
\* stored ('Open', '/tmp/parent/present').
ClickOpensAbsoluteWitness ==
    /\ ClickedIn(file_present, Len(t_name))
    /\ buffer = t_name \o file_present
    /\ last.point = size
    /\ context = <<CONTEXT_ACTION_FILE_OPEN, file_present>>

-----------------------------------------------------------------------------
(* Clicks on the absolute path of a file that cannot be read                *)

\* /srv is the project folder and holds the directory parent/secret.
ScNamesakeFolder ==
    [ScBase EXCEPT
        !.fs.entries = @ \o <<Dir(join(srvdir, n_parent), TRUE),
                              Dir(join(join(srvdir, n_parent), n_secret), TRUE)>>,
        !.window_folders = <<srvdir>>]
\* /srv is the project folder and cannot be listed.
ScSrvUnlistable ==
    [ScBase EXCEPT !.fs.entries[9] = Dir(srvdir, FALSE),
                   !.window_folders = <<srvdir>>]

t_up == <<"/", ".", ".", "/">>

CasesUnreadable ==
    ({ScBase} \X {file_secret, t_name \o file_secret,
                  file_secret \o t_up \o n_present})
    \cup ({ScMirror} \X {file_secret, file_secret \o t_line})
    \cup ({ScUnlistable, ScNamesakeFolder, ScSrvUnlistable} \X {file_secret})

InitUnreadable == InitOf(CasesUnreadable)
SpecUnreadable == InitUnreadable /\ [][Next]_vars

\* The directories description searches: the kept folders and the working
\* directory.
BaseDirs == {v_folders[i] : i \in 1..Len(v_folders)} \cup {v_pwd}

Entries == {fs.entries[i].path : i \in 1..Len(fs.entries)}

\* The name `n` stands in the buffer right before the separator that
\* precedes the name of P, whose text stands at b.
StandsBeforeName(n, P, b) ==
    /\ b + Len(P) - Len(basename(P)) - 1 >= Len(n)
    /\ SubSeq(buffer, b + Len(P) - Len(basename(P)) - Len(n),
              b + Len(P) - Len(basename(P)) - 1) = n

\* The other entries the click in P's text at b can come to: their name
\* starts as P's name does, and they lie in P's directory, or in or below a
\* base directory, in a directory whose name stands before P's name in the
\* buffer, as the name of P's directory, or an end of it, does.
Namesakes(P, b) ==
    {Q \in Entries :
        /\ Q # P
        /\ startswith(basename(Q),
                      SubSeq(P, Len(P) - Len(basename(P)) + 1, PathHead(P)))
        /\ \/ dirname(Q) = dirname(P)
           \/ /\ dirname(Q) # Root
              /\ StandsBeforeName(basename(dirname(Q)), P, b)
              /\ \E d \in BaseDirs : NestedIn(Q, d)}

\* The directories the click in P's text searches and that cannot be listed:
\* P's directory, a base directory, a directory below a kept folder.
UnlistableSearched(P) ==
    {d \in Entries :
        /\ listdir_raises(d)
        /\ \/ d = dirname(P)
           \/ d \in BaseDirs
           \/ \E i \in 1..Len(v_folders) : NestedIn(d, v_folders[i])}

\* The stored decision offers Q, or an entry inside the folder Q: 'Open'
\* with the readable file, 'Goto' with the file and a line, 'Reveal' or
\* 'Add Folder' with the folder.
OffersEntry(Q) ==
    \/ Q \in ReadableFiles /\ context = <<CONTEXT_ACTION_FILE_OPEN, Q>>
    \/ /\ Q \in ReadableFiles
       /\ context[1] = CONTEXT_ACTION_FILE_GOTO
       /\ startswith(context[2], Q \o <<":">>)
    \/ /\ isdir(Q)
       /\ context[1] \in {CONTEXT_ACTION_FOLDER_REVEAL,
                          CONTEXT_ACTION_FOLDER_ADD}
       /\ context[2] = Q
    \/ /\ isdir(Q)
       /\ context[1] \in {CONTEXT_ACTION_FILE_OPEN, CONTEXT_ACTION_FILE_GOTO,
                          CONTEXT_ACTION_FOLDER_REVEAL,
                          CONTEXT_ACTION_FOLDER_ADD}
       /\ startswith(context[2], Q \o <<"/">>)

ClickSkipsUnreadableUndelimited ==
    \A P \in UnreadableFiles : \A b \in 0..size :
        ClickedIn(P, b) =>
            \/ context = <<None, NoneText>>
            \/ context = <<CONTEXT_ACTION_ERROR, NoneText>>
            \/ \E Q \in Namesakes(P, b) : OffersEntry(Q)

\* A click inside /tmp/parent/secret has stored 'Reveal' with the folder
\* /srv/parent/secret of the project.
ClickOnUnreadableRevealsNamesake ==
    /\ ClickedIn(file_secret, 0)
    /\ buffer = file_secret
    /\ context = <<CONTEXT_ACTION_FOLDER_REVEAL,
                   join(join(srvdir, n_parent), n_secret)>>

\* A click inside /tmp/parent/secret has stored the error state because the
\* project folder /srv cannot be listed, while /tmp/parent can.
ClickOnUnreadableOtherUnlistable ==
    /\ ClickedIn(file_secret, 0)
    /\ buffer = file_secret
    /\ ~listdir_raises(dirname(file_secret))
    /\ listdir_raises(srvdir)
    /\ context = <<CONTEXT_ACTION_ERROR, NoneText>>

\* A click inside the text /tmp/parent/secret of /tmp/parent/secret/../present
\* has stored ('Open', '/tmp/parent/present').
ClickOnUnreadableGoesOn ==
    /\ ClickedIn(file_secret, 0)
    /\ buffer = file_secret \o t_up \o n_present
    /\ last.point = Len(file_secret) - 3
    /\ context = <<CONTEXT_ACTION_FILE_OPEN, file_present>>

-----------------------------------------------------------------------------
(* Files that cannot be read, on every way to a candidate                   *)

\* /tmp is the only project folder and the working directory.
ScTmp ==
    Scenario(FALSE, TRUE, FALSE, FALSE, <<join(Root, n_tmp)>>, NoneText, NoneText)

CasesSecret ==
    ({ScBase} \X {file_secret, n_secret, <<".", "/">> \o n_secret,
                  t_name \o file_secret})
    \cup ({ScMirror, ScTmp} \X {join(n_parent, n_secret)})

InitSecret == InitOf(CasesSecret)
SpecSecret == InitSecret /\ [][Next]_vars

\* C3: whatever description has consumed (after a click, on a selection or
\* from the clipboard), no FileFound or FileNotFound candidate names an
\* existing file that cannot be read; and after a click on a selection that
\* is the absolute path of such a file the stored decision is (None, None).
NoUnreadableCandidate ==
    /\ \A i \in 1..Len(yielded) :
            yielded[i].kind \in {"FileFound", "FileNotFound"} =>
                ~(is_file(yielded[i].path) /\ ~is_readable(yielded[i].path))
    /\ \A P \in UnreadableFiles : \A b \in 0..size :
            (At(P, b) /\ Selected(b, b + Len(P))) => context = <<None, NoneText>>

\* The selection /tmp/parent/secret in NAME=/tmp/parent/secret, a file that
\* cannot be read, has been clicked: only the text itself was yielded.
NoUnreadableCandidateWitness ==
    /\ buffer = t_name \o file_secret
    /\ Selected(Len(t_name), size)
    /\ file_secret \in UnreadableFiles
    /\ Len(yielded) = 1
    /\ yielded[1] = TextFound(Region(Len(t_name), size), file_secret)
    /\ context = <<None, NoneText>>

-----------------------------------------------------------------------------
(* The best candidate of a kind                                             *)

CasesBest ==
    ({ScBase} \X {n_also_present, also_present, n_present})
    \cup {<<ScReadable, n_also_present>>, <<ScMirror, join(n_parent, n_present)>>,
          <<ScTmp, n_parent>>}

InitBest == InitOf(CasesBest)
SpecBest == InitBest /\ [][Next]_vars

KindOrder == <<"FileFound", "FolderFound", "FileNotFound", "FolderNotFound">>

\* Candidate i of cs has the longest region, and is the first that has.
IsBest(cs, i) ==
    \A j \in 1..Len(cs) :
        /\ region_size(cs[j].region) <= region_size(cs[i].region)
        /\ (j < i => region_size(cs[j].region) < region_size(cs[i].region))

\* The stored path is `path`, or `path` and the line and column.
Stores(path) ==
    \/ context[2] = path
    \/ /\ context[1] = CONTEXT_ACTION_FILE_GOTO
       /\ startswith(context[2], path \o <<":">>)

\* C4: when gidopen_in_view.description has stored a decision, its path is
\* that of the candidate of the winning kind with the longest region, the
\* first yielded of those equally long; and a click at any offset of the
\* buffer 'also present', with 'present' and 'also present' in the working
\* directory, stores ('Open', '/tmp/parent/also present').
LongestRegionWins ==
    /\ (last.op = "view.description" /\ context[1] \notin {None, CONTEXT_ACTION_ERROR}) =>
            \E k \in 1..Len(KindOrder) :
                /\ OfKind(yielded, KindOrder[k]) # <<>>
                /\ \A h \in 1..(k - 1) : OfKind(yielded, KindOrder[h]) = <<>>
                /\ \E i \in 1..Len(OfKind(yielded, KindOrder[k])) :
                        /\ IsBest(OfKind(yielded, KindOrder[k]), i)
                        /\ Stores(OfKind(yielded, KindOrder[k])[i].path)
    /\ (/\ buffer = n_also_present
        /\ ClickedIn(n_also_present, 0)
        /\ {join(v_pwd, n_present), join(v_pwd, n_also_present)} \subseteq ReadableFiles) =>
            context = <<CONTEXT_ACTION_FILE_OPEN, join(v_pwd, n_also_present)>>

\* A click at the end of 'also present' has yielded 'present' with a region
\* of 7 characters and then 'also present' with one of 12, and the latter
\* is stored.
LongestRegionWinsWitness ==
    /\ buffer = n_also_present
    /\ ClickedIn(n_also_present, 0)
    /\ last.point = size
    /\ Len(yielded) = 2
    /\ yielded[1] = FileFound(Region(5, 12), file_present)
    /\ yielded[2] = FileFound(Region(0, 12), also_present)
    /\ context = <<CONTEXT_ACTION_FILE_OPEN, also_present>>

-----------------------------------------------------------------------------
(* A basename after a separator                                             *)

t_dot == <<".", "/">>

CasesParent ==
    ({ScBase} \X {join(n_parent, n_present),
                  join(join(join(Root, n_notexist), n_parent), n_present),
                  t_dot \o n_present,
                  join(n_nomatch, n_present),
                  join(join(join(Root, n_tmp), n_nomatch), n_present),
                  join(join(n_parent, <<".">>), n_present),
                  <<"a">> \o t_dot \o n_present,
                  <<"x", " ">> \o t_dot \o n_present})
    \cup {<<ScMirror, join(n_nomatch, n_present)>>}

InitParent == InitOf(CasesParent)
SpecParent == InitParent /\ [][Next]_vars

\* The buffer left of offset b0 reads NAME/ or NAME/./, NAME being the name
\* of the directory of `path`.
ParentWritten(path, b0) ==
    \E sep \in {<<"/">>, <<"/", ".", "/">>} :
        /\ b0 >= Len(sep) + Len(basename(dirname(path)))
        /\ SubSeq(buffer, b0 - Len(sep) + 1, b0) = sep
        /\ SubSeq(buffer, b0 - Len(sep) - Len(basename(dirname(path))) + 1,
                  b0 - Len(sep)) = basename(dirname(path))

\* The buffer left of offset b0 reads './', at its start or after a
\* character that is no part of a path.
DotSlashWritten(b0) ==
    /\ b0 >= 2
    /\ SubSeq(buffer, b0 - 1, b0) = t_dot
    /\ (b0 = 2 \/ ~is_likely_path_char(buffer[b0 - 2]))

\* The fragment clicked ends the buffer with the name of `path` after a
\* separator, and is no absolute path of something that exists.
ClickedBase(path) ==
    /\ last.op = "view.description"
    /\ region_empty(last.region)
    /\ size > Len(basename(path))
    /\ SubSeq(buffer, size - Len(basename(path)) + 1, size) = basename(path)
    /\ buffer[size - Len(basename(path))] = "/"
    /\ last.point \in expand_begin(size)..size
    /\ ~exists(substr_region(expand_begin(size), size))

\* C5: after a click in a fragment with a separator that is no existing
\* absolute path, a readable file that lies in a base directory and has the
\* fragment's basename is yielded if and only if the text left of the
\* basename names the file's directory or is './'.  In particular
\* 'nomatch/present' and '/tmp/nomatch/present' store (None, None).
BasenameNeedsParent ==
    /\ \A F \in ReadableFiles :
            (ClickedBase(F) /\ dirname(F) \in BaseDirs) =>
                ((\E i \in 1..Len(yielded) : yielded[i] =
                        FileFound(yielded[i].region, F))
                 <=> (\/ ParentWritten(F, size - Len(basename(F)))
                      \/ DotSlashWritten(size - Len(basename(F)))))
    /\ (/\ ClickedBase(file_present)
        /\ buffer \in {join(n_nomatch, n_present),
                       join(join(join(Root, n_tmp), n_nomatch), n_present)}) =>
            /\ context = <<None, NoneText>>
            /\ yielded = <<>>

\* A click in '/notexist/parent/present' has stored ('Open',
\* '/tmp/parent/present'): /notexist does not exist, and the working
\* directory /tmp/parent holds `present`.
BasenameNeedsParentWitness ==
    /\ buffer = join(join(join(Root, n_notexist), n_parent), n_present)
    /\ ClickedBase(file_present)
    /\ dirname(file_present) \in BaseDirs
    /\ last.point = 3
    /\ context = <<CONTEXT_ACTION_FILE_OPEN, file_present>>

-----------------------------------------------------------------------------
(* Selected absolute paths that do not exist                                *)

CasesMissing ==
    ({ScBase} \X ({file_absent, t_name \o file_absent,
                   join(join(file_present, <<"x">>), <<"y">>)}
                  \cup {join(Missing(k), n_file) : k \in 1..MaxMissing}))
    \cup {<<ScProject, join(Missing(1), n_file)>>}

InitMissing == InitOf(CasesMissing)
SpecMissing == InitMissing /\ [][Next]_vars

\* The selection [b, e) that description has just handled reads `text`.
SelectedText(text, b) == At(text, b) /\ Selected(b, b + Len(text))

\* The texts of the buffer from an offset to its end that are absolute.
AbsoluteTexts == {From(buffer, b) : b \in {x \in 0..(size - 1) : buffer[x + 1] = "/"}}

\* The ancestors of a path, the root left out.
Ancestors(path) ==
    {SubSeq(path, 1, i - 1) : i \in {x \in 2..Len(path) : path[x] = "/"}}

\* C6: after a click on a selection that is an absolute path whose parent
\* directory exists and whose leaf does not exist, the stored decision is
\* ('New File', the selected path).
MissingLeafNewFile ==
    \A T \in AbsoluteTexts :
        (/\ SelectedText(T, size - Len(T))
         /\ ~exists(T)
         /\ isdir(dirname(T))) =>
            context = <<CONTEXT_ACTION_FILE_NEW, T>>

\* /tmp/parent/absent is selected in NAME=/tmp/parent/absent and
\* ('New File', '/tmp/parent/absent') is stored.
MissingLeafNewFileWitness ==
    /\ buffer = t_name \o file_absent
    /\ SelectedText(file_absent, Len(t_name))
    /\ ~exists(file_absent)
    /\ isdir(tmpdir)
    /\ context = <<CONTEXT_ACTION_FILE_NEW, file_absent>>

\* C7 as stated: after a click on a selection that is an absolute path whose
\* parent directory does not exist, the stored action is 'Create Folder' and
\* the stored path is the nearest ancestor of the selected path that is an
\* existing directory.
MissingParentNearestExisting ==
    \A T \in AbsoluteTexts :
        (/\ SelectedText(T, size - Len(T))
         /\ ~exists(T)
         /\ ~isdir(dirname(T))) =>
            /\ context[1] = CONTEXT_ACTION_FOLDER_NEW
            /\ context[2] \in Ancestors(T)
            /\ isdir(context[2])
            /\ \A A \in Ancestors(T) : isdir(A) => Len(A) <= Len(context[2])

\* C7 amended: the stored action is 'Create Folder' and the stored path is
\* the ancestor of the selected path that is no directory (it does not
\* exist, or it is a file) while its own parent is a directory.
MissingParentShallowestMissing ==
    \A T \in AbsoluteTexts :
        (/\ SelectedText(T, size - Len(T))
         /\ ~exists(T)
         /\ ~isdir(dirname(T))) =>
            /\ context[1] = CONTEXT_ACTION_FOLDER_NEW
            /\ context[2] \in Ancestors(T)
            /\ ~isdir(context[2])
            /\ isdir(dirname(context[2]))

\* /tmp/parent/present/x/y is selected, /tmp/parent/present being a file:
\* ('Create Folder', '/tmp/parent/present') is stored.
MissingParentShallowestMissingWitness ==
    /\ buffer = join(join(file_present, <<"x">>), <<"y">>)
    /\ SelectedText(buffer, 0)
    /\ is_file(file_present)
    /\ context = <<CONTEXT_ACTION_FOLDER_NEW, file_present>>

\* C8: after a click on a selection that is an absolute path D/noexist/../file
\* where D/noexist does not exist and D is a directory, the stored decision
\* is ('Create Folder', D/noexist), a path os.mkdir can make; and when run
\* has made it, it is a directory.
MissingFolderCreated ==
    /\ \A T \in AbsoluteTexts : \A A \in Ancestors(T) :
            (/\ SelectedText(T, size - Len(T))
             /\ ~exists(A)
             /\ isdir(dirname(A))) =>
                /\ context = <<CONTEXT_ACTION_FOLDER_NEW, A>>
                /\ ~mkdir_raises(context[2])
    /\ (last.op = "view.run" /\ Len(dispatched) = 2 /\ Head(dispatched) = "mkdir") =>
            isdir(dispatched[2])

\* /tmp/noexist/sub/file was selected and run has made /tmp/noexist.
MissingFolderCreatedWitness ==
    /\ buffer = join(Missing(2), n_file)
    /\ last.op = "view.run"
    /\ dispatched = <<"mkdir", Missing(1)>>
    /\ isdir(Missing(1))
    /\ ~exists(Missing(2))
    /\ context = NoContext

-----------------------------------------------------------------------------
(* A line and a column after the path of a file                             *)

t_col == <<":", "1", ":", "2">>

CasesLine ==
    ({ScBase} \X
        ({n_present \o <<":">> \o Number(n) : n \in 1..MaxDigits}
         \cup {n_present \o <<":", "1", ":">> \o Number(m) : m \in 1..MaxDigits}
         \cup {n_present \o t_col \o <<c>> : c \in {" ", ":", "-", ESC}}
         \cup {n_present \o t_line \o t_line \o <<" ">>,
               n_present \o <<":", "1", ":">>,
               n_present \o <<":", " ", "1", ":">>,
               file_present \o t_col}))
    \cup {<<ScProject, home_present \o t_line>>}

InitLine == InitOf(CasesLine)
SpecLine == InitLine /\ [][Next]_vars

\* The FileFound candidates description has consumed.
Files == SelectSeq(yielded, LAMBDA c : c.kind = "FileFound")

\* description has just chosen candidate i of Files.
ChoseFile(i) ==
    /\ last.op = "view.description"
    /\ context[1] # CONTEXT_ACTION_ERROR
    /\ IsBest(Files, i)

\* Exactly n digits stand at offset p of the buffer.
DigitsAt(p, n) ==
    /\ \A i \in 0..(n - 1) : p + i < size /\ buffer[p + i + 1] \in DigitChars
    /\ p + n < size => buffer[p + n + 1] \notin DigitChars

\* ':' and a line of n digits stand at p, and no ':' and digit after them.
LineAt(p, n) ==
    /\ At(<<":">>, p)
    /\ DigitsAt(p + 1, n)
    /\ ~(At(<<":">>, p + 1 + n) /\ \E m \in 1..size : DigitsAt(p + 2 + n, m))

\* ':', a line of n digits, ':' and a column of m digits stand at p.
LineColAt(p, n, m) ==
    /\ At(<<":">>, p)
    /\ DigitsAt(p + 1, n)
    /\ At(<<":">>, p + 1 + n)
    /\ DigitsAt(p + 2 + n, m)

Whitespace == {" ", "\n", "\t"}

\* The buffer ends at p, or has whitespace or ':' there.
ColumnEnds(p) == p >= size \/ buffer[p + 1] \in Whitespace \cup {":"}

\* The text is a path, ':', digits, ':' and digits.
TwoNumbers(text) ==
    \E i \in 1..Len(text) : \E j \in (i + 2)..(Len(text) - 1) :
        /\ i > 1
        /\ text[i] = ":"
        /\ text[j] = ":"
        /\ \A k \in (i + 1)..(j - 1) : text[k] \in DigitChars
        /\ \A k \in (j + 1)..Len(text) : text[k] \in DigitChars

\* C9: when description has chosen the FileFound candidate with path P and
\* label L whose region ends at e, and ':LINE' stands at e with no ':' and
\* digit after it, it stores ('Goto', 'P:LINE:0') and the label is
\* 'L:LINE'; when ':LINE:COL' stands at e and the buffer ends after COL, or
\* has whitespace or ':' there, it stores ('Goto', 'P:LINE:COL') and the
\* label is 'L:LINE:COL'; and every stored 'Goto' path ends with both
\* numbers.
GotoCarriesLineAndColumn ==
    /\ \A i \in 1..Len(Files) : \A n \in 1..size :
        (ChoseFile(i) /\ LineAt(region_end(Files[i].region), n)) =>
            /\ context = <<CONTEXT_ACTION_FILE_GOTO,
                           Files[i].path
                           \o substr_region(region_end(Files[i].region),
                                            region_end(Files[i].region) + 1 + n)
                           \o <<":", "0">> >>
            /\ message = <<CONTEXT_ACTION_FILE_GOTO,
                           _shorten_name(view_memo, Files[i].path)
                           \o substr_region(region_end(Files[i].region),
                                            region_end(Files[i].region) + 1 + n)>>
    /\ \A i \in 1..Len(Files) : \A n \in 1..size : \A m \in 1..size :
        (/\ ChoseFile(i)
         /\ LineColAt(region_end(Files[i].region), n, m)
         /\ ColumnEnds(region_end(Files[i].region) + 2 + n + m)) =>
            /\ context = <<CONTEXT_ACTION_FILE_GOTO,
                           Files[i].path
                           \o substr_region(region_end(Files[i].region),
                                            region_end(Files[i].region) + 2 + n + m)>>
            /\ message = <<CONTEXT_ACTION_FILE_GOTO,
                           _shorten_name(view_memo, Files[i].path)
                           \o substr_region(region_end(Files[i].region),
                                            region_end(Files[i].region) + 2 + n + m)>>
    /\ context # NoContext /\ context[1] = CONTEXT_ACTION_FILE_GOTO =>
            TwoNumbers(context[2])

\* A click in /tmp/parent/present:1:2 has stored 'Goto' with the line and
\* the column, and a click in ~/notes:12 'Goto' with the column 0 and a
\* label that is shorter than the path.
GotoCarriesLineAndColumnWitness ==
    \/ /\ buffer = file_present \o t_col
       /\ ClickedIn(file_present, 0)
       /\ ChoseFile(1)
       /\ context = <<CONTEXT_ACTION_FILE_GOTO, file_present \o t_col>>
       /\ message = <<CONTEXT_ACTION_FILE_GOTO, file_present \o t_col>>
    \/ /\ buffer = home_present \o t_line
       /\ ClickedIn(home_present, 0)
       /\ ChoseFile(1)
       /\ context = <<CONTEXT_ACTION_FILE_GOTO, home_present \o t_line \o <<":", "0">> >>
       /\ message[2] # home_present \o t_line

\* The pairs get_line_col may return for ':LINE:COL' at p.
LineAndColumn(p, n, m) ==
    <<substr_region(p + 1, p + 1 + n), substr_region(p + 2 + n, p + 2 + n + m)>>
LineAndZero(p, n) == <<substr_region(p + 1, p + 1 + n), IntZero>>

\* What description stores for the file `path` and a pair of get_line_col.
GotoOf(path, linecol) ==
    <<CONTEXT_ACTION_FILE_GOTO,
      path \o <<":">> \o linecol[1] \o <<":">>
           \o (IF linecol[2] = IntZero THEN <<"0">> ELSE linecol[2])>>

\* description has chosen a file whose region ends at p, where ':', a line
\* of n digits, ':' and a column of m digits stand; get_line_col returns
\* `linecol` there and description has stored it with the path of the file.
ColumnResult(p, linecol) ==
    /\ get_line_col(p) = linecol
    /\ \A i \in 1..Len(Files) :
        (ChoseFile(i) /\ region_end(Files[i].region) = p) =>
            context = GotoOf(Files[i].path, linecol)

\* C10 as stated: for ':LINE:COL' after the path of the chosen file
\* get_line_col returns (LINE, COL) if the character after COL is
\* whitespace or ':', and (LINE, 0) in every other case.
ColumnOnlyBeforeSpaceOrColon ==
    \A p \in 0..size : \A n \in 1..size : \A m \in 1..size :
        (LineColAt(p, n, m) /\ \E i \in 1..Len(Files) :
            ChoseFile(i) /\ region_end(Files[i].region) = p) =>
                ColumnResult(p,
                    IF /\ p + 2 + n + m < size
                       /\ buffer[p + 3 + n + m] \in Whitespace \cup {":"}
                    THEN LineAndColumn(p, n, m)
                    ELSE LineAndZero(p, n))

\* C10 amended: get_line_col returns (LINE, COL) if the character after COL
\* is whitespace, ':' or another character of code 32 or less, or if COL
\* ends the buffer; and (LINE, 0) in every other case.
ColumnBeforeDelimiterOrEnd ==
    \A p \in 0..size : \A n \in 1..size : \A m \in 1..size :
        (LineColAt(p, n, m) /\ \E i \in 1..Len(Files) :
            ChoseFile(i) /\ region_end(Files[i].region) = p) =>
                ColumnResult(p,
                    IF \/ ColumnEnds(p + 2 + n + m)
                       \/ buffer[p + 3 + n + m] = ESC
                    THEN LineAndColumn(p, n, m)
                    ELSE LineAndZero(p, n))

\* Clicks in present:1:2-, present:1:2: and present:1:2 have stored 'Goto'
\* with the column 0, with the column 2 and with the column 2.
ColumnBeforeDelimiterOrEndWitness ==
    /\ ClickedIn(n_present, 0)
    /\ LineColAt(Len(n_present), 1, 1)
    /\ \/ /\ buffer = n_present \o t_col \o <<"-">>
          /\ context = <<CONTEXT_ACTION_FILE_GOTO, file_present \o <<":", "1", ":", "0">> >>
       \/ /\ buffer = n_present \o t_col \o <<":">>
          /\ context = <<CONTEXT_ACTION_FILE_GOTO, file_present \o t_col>>
       \/ /\ buffer = n_present \o t_col
          /\ context = <<CONTEXT_ACTION_FILE_GOTO, file_present \o t_col>>

-----------------------------------------------------------------------------
(* The action of the best kind                                              *)

\* The tree of ScMirror, and `present` is the name of a directory of /srv
\* as well as of a file of the working directory.
ScMixed ==
    [ScMirror EXCEPT !.fs.entries = @ \o <<Dir(join(srvdir, n_present), TRUE)>>]

CasesKinds ==
    ({ScBase} \X {file_present, tmpdir, file_absent, join(Missing(1), n_file),
                  n_absent, <<" ">>})
    \cup {<<ScMixed, n_present>>, <<ScProject, tmpdir>>}

InitKinds == InitOf(CasesKinds)
SpecKinds == InitKinds /\ [][Next]_vars

\* description has consumed a candidate of the kind.
Has(kind) == \E i \in 1..Len(yielded) : yielded[i].kind = kind

\* The actions of the first kind, in the order of priority, that has a
\* candidate; None when only TextFound candidates or none were consumed.
ActionsOfKinds ==
    IF Has("FileFound")
    THEN {CONTEXT_ACTION_FILE_OPEN, CONTEXT_ACTION_FILE_GOTO}
    ELSE IF Has("FolderFound")
    THEN {CONTEXT_ACTION_FOLDER_REVEAL, CONTEXT_ACTION_FOLDER_ADD}
    ELSE IF Has("FileNotFound") THEN {CONTEXT_ACTION_FILE_NEW}
    ELSE IF Has("FolderNotFound") THEN {CONTEXT_ACTION_FOLDER_NEW}
    ELSE {None}

\* C11 for gidopen_in_view alone: when description has returned without an
\* exception, the stored action is one of the kind of highest priority that
\* has a candidate.
ViewActionByKind ==
    (last.op = "view.description" /\ context[1] # CONTEXT_ACTION_ERROR) =>
        context[1] \in ActionsOfKinds

\* C11: the action stored by description, of gidopen_in_view when no
\* exception was raised and of gidopen_in_window, is one of the kind of
\* highest priority that has a candidate: Open or Goto if a FileFound
\* exists, else Reveal or Add Folder if a FolderFound exists, else New File
\* if a FileNotFound exists, else Create Folder if a FolderNotFound exists,
\* else none.
ActionByKindPriority ==
    /\ (last.op = "view.description" /\ context[1] # CONTEXT_ACTION_ERROR) =>
            context[1] \in ActionsOfKinds
    /\ last.op = "window.description" => w_action \in ActionsOfKinds

\* gidopen_in_window.description has found the readable file
\* /tmp/parent/present on the clipboard and has stored no action.
WindowDropsFileFound ==
    /\ last.op = "window.description"
    /\ clipboard = file_present
    /\ yielded = <<FileFound(Region(0, 0), file_present)>>
    /\ w_action = None
    /\ w_path = <<>>
    /\ message = <<"GidOpen:", <<"TypeError">>>>

\* gidopen_in_view.description has consumed a FolderFound and a FileFound
\* for the selection `present` and has stored Open.
ViewActionByKindWitness ==
    /\ last.op = "view.description"
    /\ buffer = n_present
    /\ Has("FolderFound")
    /\ Has("FileFound")
    /\ Has("TextFound")
    /\ context = <<CONTEXT_ACTION_FILE_OPEN, file_present>>

\* description has consumed a candidate that is no TextFound.
HasCandidate ==
    \/ Has("FileFound")
    \/ Has("FolderFound")
    \/ Has("FileNotFound")
    \/ Has("FolderNotFound")

Actions ==
    {CONTEXT_ACTION_FILE_OPEN, CONTEXT_ACTION_FILE_GOTO,
     CONTEXT_ACTION_FOLDER_REVEAL, CONTEXT_ACTION_FOLDER_ADD,
     CONTEXT_ACTION_FILE_NEW, CONTEXT_ACTION_FOLDER_NEW}

\* C12: after gidopen_in_view.description has returned without an
\* exception, is_visible is true if and only if an action is stored, which
\* is if and only if a candidate that is no TextFound was consumed; and
\* when there is none, as for a selection of one space, the stored decision
\* is (None, None) and is_visible and is_enabled are false.
MenuHiddenWithoutCandidate ==
    (last.op = "view.description" /\ context[1] # CONTEXT_ACTION_ERROR) =>
        /\ is_visible <=> context[1] \in Actions
        /\ is_visible <=> HasCandidate
        /\ ~HasCandidate =>
            /\ context = <<None, NoneText>>
            /\ ~is_visible
            /\ ~is_enabled

\* The one space of the buffer was selected and clicked: only a TextFound
\* was consumed, (None, None) is stored and the menu entry is hidden.
MenuHiddenWithoutCandidateWitness ==
    /\ buffer = <<" ">>
    /\ Selected(0, 1)
    /\ yielded = <<TextFound(Region(0, 1), <<" ">>)>>
    /\ context = <<None, NoneText>>
    /\ ~is_visible
    /\ ~is_enabled

-----------------------------------------------------------------------------
(* Exceptions inside description                                            *)

CasesErrors ==
    ({ScUnlistable, ScBase} \X {file_present, n_present})
    \cup {<<ScUnlistable, t_name \o n_present>>}

InitErrors == InitOf(CasesErrors)
SpecErrors == InitErrors /\ [][Next]_vars

\* description has returned the message it makes of an exception.
ReturnedError == message # <<>> /\ message[1] = "GidOpen:"

\* C13: an exception raised inside description is caught there: the click
\* in a name whose directory os.listdir cannot list, and the clipboard text
\* for which gidopen_in_window calls _setup_folders, make description
\* return 'GidOpen: ' and the class of the exception; whenever
\* gidopen_in_view.description returns that, ('Error', None) is stored and
\* is_enabled is false, and whenever gidopen_in_window.description returns
\* it, the action is None, the path is empty and is_enabled is false.
ExceptionsCaught ==
    /\ (last.op = "view.description" /\ ReturnedError) =>
            /\ context = <<CONTEXT_ACTION_ERROR, NoneText>>
            /\ ~is_enabled
    /\ (last.op = "view.description" /\ context[1] = CONTEXT_ACTION_ERROR) =>
            ReturnedError
    /\ (last.op = "window.description" /\ ReturnedError) =>
            /\ w_action = None
            /\ w_path = <<>>
            /\ ~window_is_enabled
    /\ \A b \in 0..size :
        (ClickedIn(n_present, b) /\ listdir_raises(tmpdir)) =>
            message = <<"GidOpen:", <<"PermissionError">>>>
    /\ (last.op = "window.description" /\ isabs(clipboard) /\ exists(clipboard)) =>
            message = <<"GidOpen:", <<"TypeError">>>>

\* A click in `present`, with a working directory that cannot be listed,
\* has stored ('Error', None); and gidopen_in_window.description has
\* returned 'GidOpen: TypeError' and stored no path.
ExceptionsCaughtWitness ==
    \/ /\ ClickedIn(n_present, 0)
       /\ buffer = n_present
       /\ listdir_raises(tmpdir)
       /\ message = <<"GidOpen:", <<"PermissionError">>>>
       /\ context = <<CONTEXT_ACTION_ERROR, NoneText>>
       /\ ~is_enabled
    \/ /\ last.op = "window.description"
       /\ clipboard = file_present
       /\ message = <<"GidOpen:", <<"TypeError">>>>
       /\ ~window_is_enabled

-----------------------------------------------------------------------------
(* Reveal or Add Folder                                                     *)

\* The tree of the tests with /tmp as the working directory.
ScTmpPwd == [ScBase EXCEPT !.pwd_setting = join(Root, n_tmp)]

\* The root and /srv are the project folders.
ScRoot == [ScBase EXCEPT !.window_folders = <<Root, srvdir>>]

CasesFolders ==
    ({ScBase} \X {tmpdir, srvdir})
    \cup ({ScProject} \X {tmpdir, srvdir, join(Root, n_tmp)})
    \cup ({ScMirror} \X {srvdir, join(srvdir, n_parent), tmpdir})
    \cup {<<ScTmpPwd, tmpdir>>}
    \cup ({ScRoot} \X {tmpdir, srvdir})

InitFolders == InitOf(CasesFolders)
SpecFolders == InitFolders /\ [][Next]_vars

UnderProjectFolder(path) ==
    \E i \in 1..Len(window_folders) : Under(window_folders[i], path)

\* gidopen_in_view.description has chosen a FolderFound candidate.
ChoseFolder ==
    /\ last.op = "view.description"
    /\ context[1] # CONTEXT_ACTION_ERROR
    /\ ~Has("FileFound")
    /\ Has("FolderFound")

\* C14 as stated: for the best FolderFound candidate the action is Reveal
\* if the folder is, or is nested in, a folder of the project or the
\* working directory, and Add Folder otherwise.
RevealIffInBaseDirectory ==
    ChoseFolder =>
        context[1] = IF UnderProjectFolder(context[2]) \/ Under(v_pwd, context[2])
                     THEN CONTEXT_ACTION_FOLDER_REVEAL
                     ELSE CONTEXT_ACTION_FOLDER_ADD

\* The folder is a kept folder of the project, or nested in one that is not
\* the root.
InKeptFolderBelowRoot(path) ==
    \E i \in 1..Len(v_folders) :
        \/ path = v_folders[i]
        \/ v_folders[i] # Root /\ NestedIn(path, v_folders[i])

\* C14 amended: the action is Reveal if the folder is a kept folder of the
\* project, or nested in a kept folder other than the root, and Add Folder
\* otherwise: also when the folder is the working directory or nested in
\* it, and when it is nested in the root alone.
RevealIffInProjectFolder ==
    ChoseFolder =>
        /\ \E i \in 1..Len(yielded) :
            yielded[i].kind = "FolderFound" /\ yielded[i].path = context[2]
        /\ context[1] = IF InKeptFolderBelowRoot(context[2])
                        THEN CONTEXT_ACTION_FOLDER_REVEAL
                        ELSE CONTEXT_ACTION_FOLDER_ADD

\* The same with the root counted as the other folders are.
RevealIffInKeptFolder ==
    ChoseFolder =>
        context[1] = IF \E i \in 1..Len(v_folders) : Under(v_folders[i], context[2])
                     THEN CONTEXT_ACTION_FOLDER_REVEAL
                     ELSE CONTEXT_ACTION_FOLDER_ADD

\* The root is a kept folder: a click in /tmp/parent, which is nested in it,
\* has stored Add Folder, and a click in /srv, a kept folder, Reveal.
RootFolderAddsNested ==
    /\ ClickedIn(tmpdir, 0)
    /\ buffer = tmpdir
    /\ ChoseFolder
    /\ v_folders = <<Root, srvdir>>
    /\ NestedIn(tmpdir, Root)
    /\ context = <<CONTEXT_ACTION_FOLDER_ADD, tmpdir>>

\* A click in /tmp/parent, which is the working directory and no folder of
\* the project, has stored Add Folder.
RevealIffInProjectFolderWitness ==
    /\ ClickedIn(tmpdir, 0)
    /\ buffer = tmpdir
    /\ ChoseFolder
    /\ v_pwd = tmpdir
    /\ window_folders = <<>>
    /\ context = <<CONTEXT_ACTION_FOLDER_ADD, tmpdir>>

-----------------------------------------------------------------------------
(* The working directory                                                    *)

\* The values of the setting: none, a directory, the home directory by a
\* tilde, a user that does not exist, a file, a relative path of a
\* directory, and a path that does not exist.
PwdSettings ==
    {NoneText, tmpdir, <<"~">>, <<"~", "x">>, file_present, n_tmp, Missing(1)}

CasesPwd ==
    {<<Scenario(FALSE, TRUE, FALSE, FALSE, c[1], c[2], c[3]), srvdir>> :
        c \in {<<>>, <<srvdir>>, <<tmpdir, join(Root, n_tmp)>>}
              \X PwdSettings \X {NoneText, home_present}}

InitPwd == InitOf(CasesPwd)
SpecPwd == InitPwd /\ [][Next]_vars

\* The setting with a leading '~' of its own replaced by the home directory.
TildeExpanded(setting) ==
    IF setting = <<"~">> \/ startswith(setting, <<"~", "/">>)
    THEN EnvHome \o Tail(setting)
    ELSE setting

\* The setting names, after tilde expansion, an absolute path of a
\* directory that exists.
SettingOk ==
    /\ pwd_setting # NoneText
    /\ Head(TildeExpanded(pwd_setting)) = "/"
    /\ isdir(TildeExpanded(pwd_setting))

\* Folder i of the window has no other folder of the window above it.
Outermost(i) ==
    \A k \in 1..Len(window_folders) :
        ~startswith(window_folders[i], window_folders[k] \o <<"/">>)

\* The first folder of the window that is kept.
FirstKept ==
    window_folders[CHOOSE i \in 1..Len(window_folders) :
        Outermost(i) /\ \A j \in 1..(i - 1) : ~Outermost(j)]

\* C15: the working directory gidopen_in_view._setup_folders has computed
\* is the setting 'current_working_directory', tilde-expanded, if that is
\* an absolute path of an existing directory; otherwise the directory of
\* the current file of the window; otherwise the first kept folder;
\* otherwise the home directory.
WorkingDirectoryOrder ==
    (last.op = "view.description" /\ v_pwd # NoneText) =>
        v_pwd = IF SettingOk THEN TildeExpanded(pwd_setting)
                ELSE IF winvar_file # NoneText THEN dirname(winvar_file)
                ELSE IF window_folders # <<>> THEN FirstKept
                ELSE EnvHome

\* The setting names a file, the window has a current file and a folder:
\* the working directory is the directory of the current file.
WorkingDirectoryOrderWitness ==
    /\ last.op = "view.description"
    /\ pwd_setting = file_present
    /\ winvar_file = home_present
    /\ window_folders = <<srvdir>>
    /\ v_pwd = EnvHome

-----------------------------------------------------------------------------
(* Excluded folders                                                         *)

n_git == <<".", "g", "i", "t">>
dir_git == join(tmpdir, n_git)

\* tmpdir holds a folder .git, which holds a file `file`.
ScGit ==
    [ScBase EXCEPT !.fs.entries =
        @ \o <<Dir(dir_git, TRUE), File(join(dir_git, n_file), TRUE)>>]

CasesExcluded ==
    {ScGit} \X {n_git, join(n_git, n_file), dir_git, join(n_parent, n_git),
                n_present}

InitExcluded == InitOf(CasesExcluded)
SpecExcluded == InitExcluded /\ [][Next]_vars

\* The path lies beneath a folder the exclusion list names.
RECURSIVE BeneathExcluded(_)
BeneathExcluded(path) ==
    IF is_path_root(path) \/ Len(path) = 0 \/ dirname(path) = path THEN FALSE
    ELSE \/ basename(dirname(path)) \in folder_excludes
         \/ BeneathExcluded(dirname(path))

\* The text of the buffer names no absolute path: whatever a click finds, it
\* finds by a search of the base directories.
RelativeBuffer == size > 0 /\ buffer[1] \notin {"/", "~", "$"}

\* C16: after a click with no selection, no FolderFound candidate names a
\* folder whose basename is in the exclusion list, and no candidate the
\* searches of the base directories have reached names anything beneath such
\* a folder.
ExcludedNeverYielded ==
    (last.op = "view.description" /\ region_empty(last.region)) =>
        \A i \in 1..Len(yielded) :
            /\ yielded[i].kind = "FolderFound" =>
                    basename(yielded[i].path) \notin folder_excludes
            /\ (RelativeBuffer /\ yielded[i].kind \in {"FileFound", "FolderFound"}) =>
                    ~BeneathExcluded(yielded[i].path)

\* A click in the text `.git` has yielded the excluded folder tmpdir/.git,
\* found by the basename-only search, and the menu offers to add it.
ExcludedYieldedByContains ==
    /\ buffer = n_git
    /\ last.op = "view.description" /\ region_empty(last.region)
    /\ basename(dir_git) \in folder_excludes
    /\ \E i \in 1..Len(yielded) :
            yielded[i] = FolderFound(Region(0, size), dir_git)
    /\ context = <<"Add Folder", dir_git>>

-----------------------------------------------------------------------------
(* Clicks find, selections may create                                       *)

n_nomatch_present == join(n_nomatch, n_present)

\* TestGidOpenPoint.samples_no_candidates, with tmpdir for the working
\* directory.
samples_no_candidates ==
    {<<" ", " ", " ", "\n">>,
     file_absent,
     join(Missing(1), n_file),
     n_absent,
     n_nomatch_present,
     join(join(Root, n_tmp), n_nomatch_present)}

\* /notexist/parent/present, of TestGidOpenPoint.samples_open_candidates:
\* no such file, and the working directory holds parent/present.
notexist_present == join(join(join(Root, n_notexist), n_parent), n_present)

CasesClicks ==
    ({ScBase} \X (samples_no_candidates \cup {notexist_present}))
    \cup {<<ScUnlistable, n_absent>>}

InitClicks == InitOf(CasesClicks)
SpecClicks == InitClicks /\ [][Next]_vars

\* description has just run for a click with nothing selected.
Clicked == last.op = "view.description" /\ region_empty(last.region)

\* C17 as stated: after a click with no selection, at any offset, no
\* FileNotFound or FolderNotFound candidate has been yielded and the stored
\* action is neither 'New File' nor 'Create Folder'; and when the text names
\* a file that does not exist (absolute with its parent present, absolute
\* with its parent missing, or relative) the stored decision is (None, None).
ClickOnMissingStoresNothing ==
    Clicked =>
        /\ \A i \in 1..Len(yielded) :
                yielded[i].kind \notin {"FileNotFound", "FolderNotFound"}
        /\ context[1] \notin {CONTEXT_ACTION_FILE_NEW, CONTEXT_ACTION_FOLDER_NEW}
        /\ (buffer[1] # " " /\ ~exists(buffer)) => context = <<None, NoneText>>

\* The stored path is that of candidate i, which is there on the filesystem
\* and is found, with the line and column that follow it if any.
StoredFound(i) ==
    /\ yielded[i].kind \in {"FileFound", "FolderFound"}
    /\ exists(yielded[i].path)
    /\ \/ context[2] = yielded[i].path
       \/ startswith(context[2], yielded[i].path \o <<":">>)

\* C17 amended: after a click with no selection, at any offset, no
\* FileNotFound or FolderNotFound candidate has been yielded and the stored
\* action is neither 'New File' nor 'Create Folder'.  When the text names a
\* file that does not exist, the stored decision is (None, None), or
\* ('Error', None) after a listing that raises, or an action on a file or
\* folder that exists and that the searches have found; it is never the
\* path that does not exist.  The texts of samples_no_candidates store
\* (None, None).
ClickNeverCreates ==
    Clicked =>
        /\ \A i \in 1..Len(yielded) :
                yielded[i].kind \notin {"FileNotFound", "FolderNotFound"}
        /\ context[1] \notin {CONTEXT_ACTION_FILE_NEW, CONTEXT_ACTION_FOLDER_NEW}
        /\ (buffer[1] # " " /\ ~exists(buffer)) =>
            /\ context[2] # buffer
            /\ \/ context = <<None, NoneText>>
               \/ /\ context = <<CONTEXT_ACTION_ERROR, NoneText>>
                  /\ \E k \in 1..Len(fs.entries) :
                        fs.entries[k].kind = "dir" /\ ~fs.entries[k].readable
               \/ /\ context[1] \in {CONTEXT_ACTION_FILE_OPEN, CONTEXT_ACTION_FILE_GOTO,
                                     CONTEXT_ACTION_FOLDER_REVEAL,
                                     CONTEXT_ACTION_FOLDER_ADD}
                  /\ \E i \in 1..Len(yielded) : StoredFound(i)
        /\ (buffer \in samples_no_candidates /\ \A d \in BaseDirs : ~listdir_raises(d))
                => context = <<None, NoneText>>

\* A click in the last name of /notexist/parent/present, which does not
\* exist, has stored ('Open', '/tmp/parent/present'): the working directory
\* holds parent/present.
ClickOnMissingOpensNamesake ==
    /\ Clicked
    /\ buffer = notexist_present
    /\ ~exists(notexist_present)
    /\ last.point = size - 2
    /\ context = <<CONTEXT_ACTION_FILE_OPEN, file_present>>

\* The text /tmp/parent/absent, whose parent exists, has been clicked in its
\* last name: nothing is offered, while the same text selected would be
\* offered as a new file.
ClickNeverCreatesWitness ==
    /\ buffer = file_absent
    /\ Clicked
    /\ last.point = size - 2
    /\ ~exists(file_absent) /\ isdir(dirname(file_absent))
    /\ context = <<None, NoneText>>
    /\ from_absolute(Region(0, size), buffer) = <<FileNotFound(Region(0, size), file_absent)>>

-----------------------------------------------------------------------------
(* A column of zero                                                         *)

t_zero == <<":", "1", ":", "0">>

CasesZero ==
    {ScBase} \X {n_present \o t_zero \o <<" ">>,
                 n_present \o t_zero,
                 n_present \o t_zero \o <<"-">>,
                 n_present \o <<":", "1">>,
                 n_present \o t_col,
                 Missing(1)}

InitZero == InitOf(CasesZero)
SpecZero == InitZero /\ [][Next]_vars

\* ':' and a line of n digits stand at p, followed by no column or by the
\* column 0.
ZeroColumnAt(p, n) ==
    \/ LineAt(p, n)
    \/ LineColAt(p, n, 1) /\ At(<<"0">>, p + 2 + n)

\* C18: when description has chosen the FileFound candidate with path P and
\* label L whose region ends at e, and ':LINE' stands at e with the column
\* left out or written as 0, the label is 'L:LINE' and the stored path is
\* 'P:LINE:0'.
ZeroColumnHiddenInLabel ==
    \A i \in 1..Len(Files) : \A n \in 1..size :
        (ChoseFile(i) /\ ZeroColumnAt(region_end(Files[i].region), n)) =>
            /\ context = <<CONTEXT_ACTION_FILE_GOTO,
                           Files[i].path
                           \o substr_region(region_end(Files[i].region),
                                            region_end(Files[i].region) + 1 + n)
                           \o <<":", "0">> >>
            /\ message = <<CONTEXT_ACTION_FILE_GOTO,
                           _shorten_name(view_memo, Files[i].path)
                           \o substr_region(region_end(Files[i].region),
                                            region_end(Files[i].region) + 1 + n)>>

\* A click in `present:1:0 ` has stored the path with the column 0 and a
\* label that shows the column too.
ExplicitZeroColumnShown ==
    /\ buffer = n_present \o t_zero \o <<" ">>
    /\ Clicked
    /\ context = <<CONTEXT_ACTION_FILE_GOTO, file_present \o t_zero>>
    /\ message = <<CONTEXT_ACTION_FILE_GOTO,
                   _shorten_name(view_memo, file_present) \o t_zero>>

-----------------------------------------------------------------------------
(* Pruning the folders of the window                                        *)

FolderChoices == {join(Root, n_tmp), tmpdir, srvdir}

\* Every list of up to three folders, and the lists of up to two folders
\* that hold the root.
FolderLists ==
    {<<>>}
    \cup {<<a>> : a \in FolderChoices \cup {Root}}
    \cup {<<a, b>> : a \in FolderChoices \cup {Root}, b \in FolderChoices \cup {Root}}
    \cup {<<a, b, c>> : a \in FolderChoices, b \in FolderChoices, c \in FolderChoices}

CasesPrune ==
    {<<Scenario(FALSE, TRUE, FALSE, FALSE, wf, tmpdir, NoneText), n_tmp>> :
        wf \in FolderLists}
    \cup {<<ScProject, Missing(1)>>}

InitPrune == InitOf(CasesPrune)
SpecPrune == InitPrune /\ [][Next]_vars

\* Folder i of the list has no strict ancestor in the list and has not
\* appeared before.
OutermostOnce(wf, i) ==
    /\ \A k \in 1..Len(wf) : ~NestedIn(wf[i], wf[k])
    /\ \A k \in 1..(i - 1) : wf[k] # wf[i]

\* The folders of the list that are outermost, once each, in input order.
RECURSIVE OutermostFrom(_, _)
OutermostFrom(wf, i) ==
    IF i > Len(wf) THEN <<>>
    ELSE (IF OutermostOnce(wf, i) THEN <<wf[i]>> ELSE <<>>)
         \o OutermostFrom(wf, i + 1)

Elements(seq) == {seq[i] : i \in 1..Len(seq)}

\* The lists that hold the folders of wf in another order.
Reorderings(wf) ==
    {[i \in 1..Len(wf) |-> wf[p[i]]] :
        p \in {q \in [1..Len(wf) -> 1..Len(wf)] :
                \A a \in 1..Len(wf) : \A b \in 1..Len(wf) : q[a] = q[b] => a = b}}

\* The list `kept` is what pruning the list wf should give.
KeepsOutermost(wf, kept) ==
    /\ kept = OutermostFrom(wf, 1)
    /\ \A a \in 1..Len(kept) : \A b \in 1..Len(kept) :
            a # b => kept[a] # kept[b] /\ ~NestedIn(kept[a], kept[b])
    /\ \A i \in 1..Len(wf) : \E k \in 1..Len(kept) :
            wf[i] = kept[k] \/ NestedIn(wf[i], kept[k])
    /\ \A other \in Reorderings(wf) :
            Elements(keep_folders(other, 1, <<>>)) = Elements(kept)

\* gidopen_in_view._setup_folders has just computed its folders.
ViewHasSetup == last.op = "view.description" /\ v_pwd # NoneText

\* gidopen_in_window.description has just run on a text, for which it needs
\* its folders.
WindowNeedsSetup == last.op = "window.description" /\ clipboard # <<>>

\* C19: the folders _setup_folders keeps are exactly the folders of the
\* window that have no strict ancestor among them, each once and in input
\* order: none of the kept is nested in or equal to another, every folder of
\* the window is a kept one or nested in one, the kept set is the same for
\* every order of the input; and gidopen_in_window keeps the same list as
\* gidopen_in_view.
PruneKeepsOutermost ==
    /\ ViewHasSetup => KeepsOutermost(window_folders, v_folders)
    /\ WindowNeedsSetup => w_folders = keep_folders(window_folders, 1, <<>>)

\* The same for gidopen_in_view alone, when the root is no folder of the
\* window.
PruneKeepsOutermostInView ==
    (ViewHasSetup /\ Root \notin Elements(window_folders)) =>
        KeepsOutermost(window_folders, v_folders)

\* gidopen_in_window.description has run with the folders /tmp/parent and
\* /tmp in the window: it has reported the TypeError and kept no folder,
\* where gidopen_in_view keeps /tmp.
WindowKeepsNothing ==
    /\ WindowNeedsSetup
    /\ window_folders = <<tmpdir, join(Root, n_tmp)>>
    /\ keep_folders(window_folders, 1, <<>>) = <<join(Root, n_tmp)>>
    /\ w_folders = <<>>
    /\ message = <<"GidOpen:", <<"TypeError">>>>

\* gidopen_in_view has kept both the root and /tmp, which lies inside it.
RootKeptWithDescendant ==
    /\ ViewHasSetup
    /\ window_folders = <<Root, join(Root, n_tmp)>>
    /\ v_folders = window_folders

-----------------------------------------------------------------------------
(* The labels of the kept folders                                           *)

srv_parent == join(srvdir, n_parent)

LabelLists ==
    {<<tmpdir, srvdir, srv_parent>>,
     <<srv_parent, tmpdir, srvdir>>,
     <<tmpdir, srv_parent>>,
     <<tmpdir, srvdir>>,
     <<srvdir, srvdir>>,
     <<join(Root, n_tmp), tmpdir>>,
     <<tmpdir>>}

\* The tree that has parent/present under /srv too; the current file is in
\* the home directory.
CasesLabels ==
    {<<Scenario(FALSE, TRUE, TRUE, FALSE, wf, NoneText, home_present), t>> :
        wf \in LabelLists, t \in {n_present, Missing(1)}}

InitLabels == InitOf(CasesLabels)
SpecLabels == InitLabels /\ [][Next]_vars

\* No other kept folder has the basename of kept folder i.
UniqueAmongKept(kept, i) ==
    \A j \in 1..Len(kept) :
        j # i => canonical_base(kept[j]) # canonical_base(kept[i])

\* C20: a kept folder has its basename for a label if and only if no other
\* kept folder has the same basename, and has no label otherwise; the
\* folders of the window that were pruned away make no difference.
LabelIffUniqueAmongKept ==
    ViewHasSetup =>
        \A i \in 1..Len(v_folders) :
            v_labels[i] = IF UniqueAmongKept(v_folders, i)
                          THEN basepath(v_folders[i])
                          ELSE NoneText

\* With the folders /tmp/parent, /srv and /srv/parent in the window,
\* /srv/parent is pruned away and /tmp/parent is the one kept folder named
\* `parent`, but it has no label: a click in `present` shows the whole path.
PrunedFolderTakesLabel ==
    /\ buffer = n_present
    /\ Clicked
    /\ window_folders = <<tmpdir, srvdir, srv_parent>>
    /\ v_folders = <<tmpdir, srvdir>>
    /\ UniqueAmongKept(v_folders, 1)
    /\ v_labels = <<NoneText, n_srv>>
    /\ message = <<CONTEXT_ACTION_FILE_OPEN, file_present>>

-----------------------------------------------------------------------------
(* The order of the base directories                                        *)

CasesIterate ==
    {<<Scenario(FALSE, TRUE, FALSE, FALSE, c[1], c[2], NoneText), n_srv>> :
        c \in {<<>>, <<srvdir>>, <<tmpdir, join(Root, n_tmp)>>, <<Root>>,
               <<join(Root, n_tmp), srvdir>>}
              \X {NoneText, tmpdir, srvdir, join(Root, n_tmp)}}
    \cup {<<ScBase, Missing(1)>>}

InitIterate == InitOf(CasesIterate)
SpecIterate == InitIterate /\ [][Next]_vars

\* What _folder_iterate should yield: the kept folders, then the working
\* directory unless it is a kept folder, or lies inside one while the flag
\* is off.
IterateExpected(su, flag) ==
    su.folders
    \o (IF /\ su.pwd \notin Elements(su.folders)
           /\ flag \/ \A k \in 1..Len(su.folders) : ~NestedIn(su.pwd, su.folders[k])
        THEN <<su.pwd>> ELSE <<>>)

NoTwoEqual(seq) ==
    \A a \in 1..Len(seq) : \A b \in 1..Len(seq) : a # b => seq[a] # seq[b]

IterateAsExpected(su) ==
    \A flag \in BOOLEAN :
        /\ _folder_iterate(su, flag) = IterateExpected(su, flag)
        /\ NoTwoEqual(_folder_iterate(su, flag))

\* C21: with the folders gidopen_in_view._setup_folders has computed,
\* _folder_iterate yields every kept folder once, in kept order, and then
\* the working directory exactly when it is no kept folder and either the
\* flag yield_pwd_in_folder is on or it lies inside no kept folder; no path
\* is yielded twice.
IterateFoldersThenPwd == ViewHasSetup => IterateAsExpected(view_memo)

\* The same when the root is no folder of the window.
IterateFoldersThenPwdBelowRoot ==
    (ViewHasSetup /\ Root \notin Elements(v_folders)) => IterateAsExpected(view_memo)

\* The root is the one kept folder and the working directory /tmp/parent
\* lies inside it: with the flag off the working directory is yielded all
\* the same.
PwdUnderRootYielded ==
    /\ ViewHasSetup
    /\ v_folders = <<Root>>
    /\ v_pwd = tmpdir
    /\ NestedIn(v_pwd, Root)
    /\ _folder_iterate(view_memo, FALSE) = <<Root, tmpdir>>

\* /tmp is kept and the working directory /tmp/parent lies inside it: it is
\* yielded last with the flag on and left out with the flag off.
PwdUnderFolderByFlag ==
    /\ ViewHasSetup
    /\ v_folders = <<join(Root, n_tmp)>>
    /\ v_pwd = tmpdir
    /\ _folder_iterate(view_memo, TRUE) = <<join(Root, n_tmp), tmpdir>>
    /\ _folder_iterate(view_memo, FALSE) = <<join(Root, n_tmp)>>

-----------------------------------------------------------------------------
(* The text around a click                                                  *)

CasesExpand ==
    {ScBase} \X {<<"[", "a", "b", "c", "]">>,
                 <<"a", "b", "c">>,
                 <<"a", "b", " ", " ", "c", "=", "d">>,
                 t_name \o file_present,
                 Missing(1)}

InitExpand == InitOf(CasesExpand)
SpecExpand == InitExpand /\ [][Next]_vars

\* Offset p is inside a run of likely path characters, or at an edge of one.
InRun(p) ==
    \/ p < size /\ is_likely_path_char(buffer[p + 1])
    \/ p > 0 /\ is_likely_path_char(buffer[p])

\* The window <<b, e>> is the maximal run of likely path characters around p.
MaximalRun(w, p) ==
    /\ 0 <= w[1] /\ w[1] <= p /\ p <= w[2] /\ w[2] <= size
    /\ \A k \in (w[1] + 1)..w[2] : is_likely_path_char(buffer[k])
    /\ w[1] = 0 \/ ~is_likely_path_char(buffer[w[1]])
    /\ w[2] = size \/ ~is_likely_path_char(buffer[w[2] + 1])

\* C22: for a click at offset p inside or at an edge of a maximal run of
\* likely path characters, expand_path(view, p, p) is that run, ending at
\* the limits of the buffer at most; the window holds no excluded character,
\* and in NAME=/abs/path a click in the path gives a window that starts after
\* the '='.
ExpandPathIsMaximalRun ==
    Clicked =>
        /\ InRun(last.point) =>
                MaximalRun(expand_path(last.point, last.point), last.point)
        /\ \A k \in (expand_path(last.point, last.point)[1] + 1)
                    ..expand_path(last.point, last.point)[2] :
                buffer[k] \notin NotPathChars /\ ~IsControlOrSpace(buffer[k])
        /\ (At(t_name, 0) /\ last.point >= Len(t_name)) =>
                expand_path(last.point, last.point) = <<Len(t_name), size>>

\* A click in `parent` of NAME=/tmp/parent/present: the window is the path,
\* from after the '=' to the end of the buffer.
ExpandPathIsMaximalRunWitness ==
    /\ buffer = t_name \o file_present
    /\ Clicked
    /\ last.point = Len(t_name) + 6
    /\ InRun(last.point)
    /\ expand_path(last.point, last.point) = <<Len(t_name), size>>
    /\ buffer[Len(t_name)] = "="

-----------------------------------------------------------------------------
(* The characters of a path                                                 *)

t_envhome == <<"$", "{", "H", "O", "M", "E", "}", "/">> \o n_notes

CasesChars ==
    {ScBase} \X {<<"<", ">", "&", "|", "'", "\"", ",", ";", ":", "[">>,
                 <<"]", "(", ")", "*", "?", GRAVE, "=", "#", "!">>,
                 <<"a", "%", "b", "{", "c", "}", "$", "d", "~", "-", ".", "+", "@">>,
                 <<"x", " ", "\n", "\t", ESC, "y">>,
                 t_envhome,
                 Missing(1)}

InitChars == InitOf(CasesChars)
SpecChars == InitChars /\ [][Next]_vars

\* The character at offset k - 1 is taken into the text around a click just
\* before it.
CharTaken(k) == expand_path(k - 1, k - 1)[2] >= k

ControlOrSpace == {NUL, ESC, " ", "\n", "\t"}

\* C23 as stated: a character is left out of the text around a click exactly
\* when it is a control character or space, or one of
\* < > & | ' " , ; : [ ] ( ) { } * ? ` = # !
BracesExcluded ==
    Clicked =>
        \A k \in 1..size :
            ~CharTaken(k) <=>
                buffer[k] \in ControlOrSpace
                    \cup {"<", ">", "&", "|", "'", "\"", ",", ";", ":", "[", "]",
                          "(", ")", "{", "}", "*", "?", GRAVE, "=", "#", "!"}

\* C23: a character is left out of the text around a click exactly when it is
\* a control character or space, or one of
\* < > & | ' " , ; : [ ] ( ) * ? ` = # !
\* and the braces, '$' and '%' are taken like any other character.
ExcludedCharacters ==
    Clicked =>
        \A k \in 1..size :
            ~CharTaken(k) <=>
                buffer[k] \in ControlOrSpace
                    \cup {"<", ">", "&", "|", "'", "\"", ",", ";", ":", "[", "]",
                          "(", ")", "*", "?", GRAVE, "=", "#", "!"}

\* A click in ${HOME}/notes takes the whole text, braces and all, and opens
\* the file of the home directory.
ExcludedCharactersWitness ==
    /\ buffer = t_envhome
    /\ Clicked
    /\ \A k \in 1..size : CharTaken(k)
    /\ expand_path(last.point, last.point) = <<0, size>>
    /\ \E k \in 1..size : buffer[k] = "{"
    /\ context = <<CONTEXT_ACTION_FILE_OPEN, home_present>>

-----------------------------------------------------------------------------
(* The order of the searches of a click                                     *)

srv_present == join(join(srvdir, n_parent), n_present)
t_envnotes == <<"$", "H", "O", "M", "E", "/">> \o n_notes

CasesStages ==
    ({ScMixed} \X {srv_present, join(n_parent, n_present), n_present, t_envnotes})
    \cup {<<ScBase, Missing(1)>>}

InitStages == InitOf(CasesStages)
SpecStages == InitStages /\ [][Next]_vars

\* The text a click at p searches for: the text around it, its trailing
\* dots and slashes left out.
ClickText(p) ==
    rstrip(substr_region(click_window(p)[1], click_window(p)[2]), {"/", "."})

\* The search of a click for `text` that finds path: 1 the check of the
\* absolute path, 2 the check of the path with its variables expanded, 3 the
\* search of the base directories.
StageOf(path, text) ==
    IF isabs(text) /\ startswith(path, normpath(text)) THEN 1
    ELSE IF /\ expandvars(text) # text
            /\ isabs(expandvars(text))
            /\ startswith(path, normpath(expandvars(text)))
    THEN 2
    ELSE 3

\* The place in `dirs` of the first directory that holds path.
BaseIndex(dirs, path) ==
    CHOOSE k \in 1..Len(dirs) :
        /\ Under(dirs[k], path)
        /\ \A j \in 1..(k - 1) : ~Under(dirs[j], path)

\* The search of the base directories looks into each of them, in order,
\* then below each of them, in order.
BaseRank(dirs, path) ==
    (IF dirname(path) = dirs[BaseIndex(dirs, path)] THEN 0 ELSE Len(dirs))
    + BaseIndex(dirs, path)

InStageOrder(cs, text, dirs) ==
    /\ \A i \in 1..Len(cs) : \A j \in (i + 1)..Len(cs) :
            /\ StageOf(cs[i].path, text) <= StageOf(cs[j].path, text)
            /\ StageOf(cs[i].path, text) = 3 =>
                    BaseRank(dirs, cs[i].path) <= BaseRank(dirs, cs[j].path)
    /\ \A i \in 1..Len(cs) : \A j \in 1..Len(cs) :
            StageOf(cs[i].path, text) < 3 =>
                StageOf(cs[j].path, text) = StageOf(cs[i].path, text)

\* C24: the candidates of one click come in the order check of the absolute
\* path, check of the path with its variables expanded, search of the base
\* directories in the order of _folder_iterate; and once one of the two
\* checks has found a candidate, no candidate of a later search is yielded.
ClickStagesInOrder ==
    (Clicked /\ context[1] # CONTEXT_ACTION_ERROR) =>
        InStageOrder(yielded, ClickText(last.point),
                     _folder_iterate(view_setup_folders, TRUE))

\* A click in /srv/parent/present, which exists: it is the one candidate,
\* though the search of the base directories would find
\* /tmp/parent/present for parent/present.
ClickStagesInOrderWitness ==
    /\ buffer = srv_present
    /\ Clicked
    /\ ClickText(last.point) = srv_present
    /\ yielded = <<FileFound(Region(0, size), srv_present)>>
    /\ \E i \in 1..Len(Yields(click_base(view_setup_folders, Region(0, size),
                                         srv_present, n_present))) :
            Yields(click_base(view_setup_folders, Region(0, size),
                              srv_present, n_present))[i].path = file_present

-----------------------------------------------------------------------------
(* The memo of the base directories                                         *)

CasesMemo ==
    ({ScBase} \X {srvdir, Missing(1)}) \cup {<<ScProject, srvdir>>}

InitMemo == InitOf(CasesMemo)
SpecMemo == InitMemo /\ [][Next]_vars

\* C25: what a description call of either command has memoized (working
\* directory, kept folders, labels) is computed from the folders and the
\* current file the window has at that call, whatever an earlier call has
\* memoized.
MemoComputedAtEachCall ==
    /\ ViewHasSetup =>
            [pwd |-> v_pwd, folders |-> v_folders, labels |-> v_labels]
                = view_setup_folders
    /\ WindowNeedsSetup =>
            /\ window_setup_folders.raised = ""
            /\ w_folders = keep_folders(window_folders, 1, <<>>)

\* The same for gidopen_in_view alone.
MemoComputedAtEachViewCall ==
    ViewHasSetup =>
        [pwd |-> v_pwd, folders |-> v_folders, labels |-> v_labels]
            = view_setup_folders

\* /srv has been added to the window, which had no folder at first, and a
\* later description of gidopen_in_view has kept it.
ViewMemoFollowsWindow ==
    /\ ViewHasSetup
    /\ window_folders = <<srvdir>>
    /\ v_folders = <<srvdir>>
    /\ v_labels = <<n_srv>>

\* /srv has been added to the window and gidopen_in_window.description has
\* run on the text /srv: it has memoized nothing and reports the TypeError.
WindowMemoNeverComputed ==
    /\ WindowNeedsSetup
    /\ clipboard = srvdir
    /\ window_folders = <<srvdir>>
    /\ keep_folders(window_folders, 1, <<>>) = <<srvdir>>
    /\ window_setup_folders.raised = "TypeError"
    /\ w_pwd = NoneText /\ w_folders = <<>>
    /\ message = <<"GidOpen:", <<"TypeError">>>>

-----------------------------------------------------------------------------
(* The regions of the candidates                                            *)

CasesRegions ==
    ({ScMixed} \X {n_present, join(n_parent, n_present)})
    \cup ({ScBase} \X {file_present, n_also_present, t_name \o n_present,
                       Missing(1)})

InitRegions == InitOf(CasesRegions)
SpecRegions == InitRegions /\ [][Next]_vars

\* The region is a stretch of the buffer that is not empty.
ValidRegion(r) ==
    /\ r # NoRegion
    /\ 0 <= region_begin(r)
    /\ region_begin(r) < region_end(r)
    /\ region_end(r) <= size

Described == last.op \in {"view.description", "window.description"}

\* C26 as stated: whatever description has consumed, after a click, on a
\* selection or from the clipboard, every candidate that is no TextFound has
\* a region that is a stretch of the buffer and is not empty.
RegionValidAtEveryEntry ==
    Described =>
        \A i \in 1..Len(yielded) :
            yielded[i].kind # "TextFound" => ValidRegion(yielded[i].region)

\* C26: after a click or on a selection every candidate that is no TextFound
\* has a region that is a stretch of the buffer and is not empty; every
\* candidate from the clipboard has the empty region (0, 0).
RegionValidInView ==
    /\ last.op = "view.description" =>
            \A i \in 1..Len(yielded) :
                yielded[i].kind # "TextFound" => ValidRegion(yielded[i].region)
    /\ last.op = "window.description" =>
            \A i \in 1..Len(yielded) : yielded[i].region = Region(0, 0)

\* A click in `present` of `also present` has found the file with the region
\* of the whole name.
RegionValidInViewWitness ==
    /\ buffer = n_also_present
    /\ Clicked
    /\ last.point = size - 1
    /\ \E i \in 1..Len(yielded) :
            yielded[i] = FileFound(Region(0, size), also_present)

\* The clipboard variant has found /tmp/parent/present with the empty region.
ClipboardRegionEmpty ==
    /\ last.op = "window.description"
    /\ clipboard = file_present
    /\ yielded = <<FileFound(Region(0, 0), file_present)>>

-----------------------------------------------------------------------------
(* A match of the name alone                                                *)

CasesBare ==
    {ScBase} \X {n_present,
                 t_dot \o n_present,
                 join(n_nomatch, n_present),
                 join(n_parent, n_present),
                 t_name \o n_present,
                 Missing(1)}

InitBare == InitOf(CasesBare)
SpecBare == InitBare /\ [][Next]_vars

HasSeparator(text) == \E k \in 1..Len(text) : text[k] = "/"

\* The region of the candidate is its name and no directory before it.
NameOnly(c) == region_size(c.region) = Len(basename(c.path))

\* C27 as stated: after a click in a fragment without a separator, a
\* candidate whose region is its name alone has './' before it, at the start
\* of the buffer or after a character that is no part of a path.
BareBasenameNeedsDotSlash ==
    (Clicked /\ ~HasSeparator(ClickText(last.point))) =>
        \A i \in 1..Len(yielded) :
            NameOnly(yielded[i]) => DotSlashWritten(region_begin(yielded[i].region))

\* C27: after a click in a fragment with a separator, a candidate of the
\* search of the base directories whose region is its name alone has './'
\* before it, at the start of the buffer or after a character that is no
\* part of a path; after a click in a fragment without a separator, every
\* readable file of a base directory that has the fragment for its name is
\* yielded, with nothing before it.
DotSlashNeededAfterSeparator ==
    (Clicked /\ context[1] # CONTEXT_ACTION_ERROR) =>
        /\ HasSeparator(ClickText(last.point)) =>
            \A i \in 1..Len(yielded) :
                (/\ StageOf(yielded[i].path, ClickText(last.point)) = 3
                 /\ NameOnly(yielded[i])) =>
                    DotSlashWritten(region_begin(yielded[i].region))
        /\ ~HasSeparator(ClickText(last.point)) =>
            \A F \in ReadableFiles :
                (dirname(F) \in BaseDirs /\ basename(F) = ClickText(last.point)) =>
                    \E i \in 1..Len(yielded) :
                        /\ yielded[i].path = F
                        /\ NameOnly(yielded[i])

\* A click in the text `present`, the name of a file of the working
\* directory and nothing before it: the file is offered.
DotSlashNeededAfterSeparatorWitness ==
    /\ buffer = n_present
    /\ Clicked
    /\ ~HasSeparator(ClickText(last.point))
    /\ yielded = <<FileFound(Region(0, size), file_present)>>
    /\ ~DotSlashWritten(0)
    /\ context = <<CONTEXT_ACTION_FILE_OPEN, file_present>>

-----------------------------------------------------------------------------
(* The walk below the base directories                                      *)

n_proj == <<"p", "r", "o", "j">>
dir_proj == join(EnvHome, n_proj)
deep_file == join(join(dir_proj, n_sub), n_file)

\* The home directory holds proj/sub/file; the working directory is tmpdir.
ScDeep(folders) ==
    [ScBase EXCEPT
        !.fs.entries = @ \o <<Dir(dir_proj, TRUE), Dir(join(dir_proj, n_sub), TRUE),
                               File(deep_file, TRUE)>>,
        !.window_folders = folders]

CasesWalk ==
    ({ScDeep(wf) : wf \in {<<dirname(EnvHome)>>, <<EnvHome>>, <<dir_proj>>,
                            <<Root>>, <<srvdir>>}}
     \X {join(n_sub, n_file)})
    \cup {<<ScBase, Missing(1)>>}

InitWalk == InitOf(CasesWalk)
SpecWalk == InitWalk /\ [][Next]_vars

\* The directory holds the path, on the filesystem.
Holds(dir, path) == Under(dir, path)

\* The click has found proj/sub/file of the home directory, which only the
\* walk below a base directory reaches.
DeepFound == \E i \in 1..Len(yielded) : yielded[i].path = deep_file

\* A click in sub/file, with the file in place.
ClickedDeep == Clicked /\ buffer = join(n_sub, n_file) /\ is_file(deep_file)

\* C28 as stated: the walk skips the base directories that are the home
\* directory or lie under it, and walks every other: after a click in
\* sub/file the file is found exactly when a base directory that is not at
\* or under the home directory holds it.
WalkSkipsUnderHome ==
    ClickedDeep =>
        (DeepFound <=>
            \E k \in 1..Len(v_folders) :
                /\ Holds(v_folders[k], deep_file)
                /\ ~(v_folders[k] = EnvHome \/ NestedIn(v_folders[k], EnvHome)))

\* C28: the walk skips the base directories that are the home directory or
\* an ancestor of it other than the root, and walks every other, those under
\* the home directory and the root included: after a click in sub/file the
\* file is found exactly when a base directory that is walked holds it.
WalkSkipsHomeAndAbove ==
    ClickedDeep =>
        (DeepFound <=>
            \E k \in 1..Len(v_folders) :
                /\ Holds(v_folders[k], deep_file)
                /\ ~(\/ v_folders[k] = EnvHome
                     \/ /\ v_folders[k] # Root
                        /\ startswith(EnvHome, v_folders[k] \o <<"/">>)))

\* The folder proj of the home directory is walked: a click in sub/file
\* opens proj/sub/file.
WalkSkipsHomeAndAboveWitness ==
    /\ ClickedDeep
    /\ v_folders = <<dir_proj>>
    /\ NestedIn(dir_proj, EnvHome)
    /\ yielded = <<FileFound(Region(0, size), deep_file)>>
    /\ context = <<CONTEXT_ACTION_FILE_OPEN, deep_file>>

-----------------------------------------------------------------------------
(* The ancestor relation                                                    *)

\* The comparison is irreflexive and transitive on the folders.
StrictOrderOn(wf) ==
    /\ \A i \in 1..Len(wf) : ~AbsolutePath_lt(wf[i], wf[i])
    /\ \A i, j, k \in 1..Len(wf) :
        AbsolutePath_lt(wf[i], wf[j]) /\ AbsolutePath_lt(wf[j], wf[k])
            => AbsolutePath_lt(wf[i], wf[k])

\* C29: on the project folders that _setup_folders compares,
\* AbsolutePath.__lt__ is irreflexive and transitive, and A < B holds exactly
\* when B is nested inside A, the filesystem root as A included.
AncestorIsNesting ==
    ViewHasSetup =>
        /\ StrictOrderOn(window_folders)
        /\ \A i, j \in 1..Len(window_folders) :
            AbsolutePath_lt(window_folders[i], window_folders[j])
                <=> NestedIn(window_folders[j], window_folders[i])

\* The same with the root left out as the ancestor.
AncestorIsNestingBelowRoot ==
    ViewHasSetup =>
        /\ StrictOrderOn(window_folders)
        /\ \A i, j \in 1..Len(window_folders) :
            window_folders[i] # Root =>
                (AbsolutePath_lt(window_folders[i], window_folders[j])
                    <=> NestedIn(window_folders[j], window_folders[i]))

\* The root is not an ancestor of tmpdir: both stay base directories.
RootIsNoAncestor ==
    /\ ViewHasSetup
    /\ window_folders = <<Root, tmpdir>>
    /\ ~AbsolutePath_lt(Root, tmpdir)
    /\ v_folders = <<Root, tmpdir>>

-----------------------------------------------------------------------------
(* One dispatch for each decision                                           *)

\* The project has settings and no folders.
ScSettings ==
    [f \in DOMAIN ScBase \cup {"project_keys"} |->
        IF f = "project_keys" THEN {"settings"} ELSE ScBase[f]]

CasesRun ==
    {<<ScBase, n_present>>, <<ScSettings, tmpdir>>, <<ScBase, tmpdir>>, <<ScProject, tmpdir>>,
     <<ScBase, join(tmpdir, n_absent)>>, <<ScBase, n_nomatch>>,
     <<ScUnlistable, n_present>>, <<ScBase, Missing(2)>>}

InitRun == InitOf(CasesRun)
SpecRun == InitRun /\ [][Next]_vars

\* run has returned: it has not raised.
Completed == dispatched = <<>> \/ dispatched[1] # "raise"

\* C30: a stored decision is dispatched at most once.  When
\* gidopen_in_view.run completes, no decision is stored and is_visible and
\* is_enabled are false; run with no decision stored dispatches nothing and
\* leaves the filesystem and the project alone; only description stores a
\* decision; is_enabled holds only of a stored path that is not None.  The
\* window command's run does the same with its action and path.
RunConsumesDecision ==
    [][/\ (last'.op = "view.run" /\ Completed')
            => (context' = NoContext /\ ~is_visible' /\ ~is_enabled')
       /\ (last'.op = "view.run" /\ context = NoContext)
            => /\ dispatched' = <<>>
               /\ fs' = fs
               /\ window_folders' = window_folders
               /\ project_keys' = project_keys
               /\ context' = NoContext
       /\ (context = NoContext /\ context' # NoContext)
            => last'.op = "view.description"
       /\ is_enabled' => context'[2] # NoneText
       /\ (last'.op = "window.run" /\ Completed')
            => (w_action' = None /\ ~window_is_enabled')
       /\ (last'.op = "window.run" /\ w_action = None)
            => /\ dispatched' = <<>>
               /\ fs' = fs
               /\ window_folders' = window_folders
       /\ (w_action = None /\ w_action' # None)
            => last'.op = "window.description"]_vars

\* run has opened the file `present` and the decision is gone.
RunConsumesDecisionWitness ==
    /\ last.op = "view.run"
    /\ dispatched = <<"open_file", file_present>>
    /\ context = NoContext
    /\ ~is_visible
    /\ ~is_enabled

\* run has found no decision and has done nothing.
RunWithoutDecision ==
    /\ last.op = "view.run"
    /\ dispatched = <<>>
    /\ context = NoContext

\* run has made the folder and the decision is gone.
RunMadeFolder ==
    /\ last.op = "view.run"
    /\ dispatched = <<"mkdir", Missing(1)>>
    /\ isdir(Missing(1))
    /\ context = NoContext

\* The project has settings and no folders: run raises the KeyError, adds
\* no folder and the decision stays.
RunRaisedKeepsDecision ==
    /\ last.op = "view.run"
    /\ dispatched = <<"raise", <<"KeyError">>>>
    /\ window_folders = <<>>
    /\ context = <<CONTEXT_ACTION_FOLDER_ADD, tmpdir>>

\* The error decision is visible and not enabled.
ErrorDecisionDisabled ==
    /\ context # NoContext
    /\ context[2] = NoneText
    /\ is_visible
    /\ ~is_enabled

====
